---- MODULE Spec2Model ----
(***************************************************************************)
(* A model of the workflow replay core of webagent:                        *)
(*   - replay_workflow and execute_action   (workflow_replay_service.py)   *)
(*   - execute_step_with_ai_fallback        (workflow_ai_fallback_service) *)
(*   - apply_parameters_to_workflow         (workflow_replay_service.py)   *)
(*   - build_workflow_from_run              (workflow_builder_service.py)  *)
(* The replay is modelled as a state machine with one action per awaited   *)
(* operation; the templating functions are modelled as operators over      *)
(* character sequences.                                                    *)
(***************************************************************************)
EXTENDS Integers, Sequences, FiniteSets, TLC

VARIABLES
    \* ---- replay_workflow ------------------------------------------------
    workflow,        \* the workflow being replayed: a sequence of steps
    pc,              \* position of replay_workflow
    step_index,      \* 1-based index of the current step
    action_pos,      \* 1-based position of the action loop's iterator in the step
    step_actions,    \* the step's recorded action list
    action_failed,   \* replay_workflow's local flag
    failed_action,   \* the failed Action record, or NoAction
    history,         \* List[HistoryItem]
    screenshots,     \* List[str]
    final_result,    \* the returned final result, or NoneV
    raised,          \* the exception that left replay_workflow, or NoError
    \* ---- execute_step_with_ai_fallback ----------------------------------
    attempt,         \* loop variable of the retry loop (0 outside the call)
    ai_actions,      \* returned action list
    ai_success,      \* returned success flag
    \* ---- observations (not program state) -------------------------------
    dispatched,      \* set of <<step, action position>> handed to execute_action
    fallback_calls,  \* sequence of step indices for which the orchestrator was called
    failed_steps,    \* steps in which the except branch recorded a failed action
    engine_log,      \* engine invocations of the orchestrator call in progress
    page,            \* the page text and address read for the final result
    \* ---- build_workflow_from_run ----------------------------------------
    steps,           \* the recorded steps: the string fields of the step tree
    parameters,      \* List[ParameterDefinition]
    templated_steps, \* the deep clone that is cleaned and templated
    \* ---- apply_parameters_to_workflow -----------------------------------
    template,        \* the argument `workflow`: the stored template's fields
    parameter_values,\* the resolved values, in the order of the dict's items
    workflow_json,   \* the serialised workflow
    parameterized,   \* the returned workflow
    \* ---- both -------------------------------------------------------------
    tpc,             \* position of the templating functions
    terror,          \* the exception that left the function, or NoneV
    \* ---- execute_agent and the LLM-response parser -----------------------
    request,         \* the AgentRequest
    apc,             \* position of execute_agent
    session,         \* the browser session: "none", "open" or "closed"
    calls,           \* the calls execute_agent has made to its collaborators
    response,        \* the text of the LLM response being parsed
    agent_error,     \* the exception that leaves execute_agent, or NoneV
    \* ---- _build_ai_task_with_context -------------------------------------
    ai_task,         \* the sub-task of the orchestrator call in progress
    \* ---- two task runs and their browser sessions -------------------------
    rpc,             \* position of each run in execute_agent
    alive,           \* the browsers that are running, named by the run that launched them
    port_owner,      \* the browser listening on the debugging port, or NoBrowser
    cdp,             \* the browser each run's cdp_url leads to, or NoBrowser
    applied,         \* set of <<run, browser>>: a run's action reached a browser
    \* ---- set_run_as_cached_workflow ---------------------------------------
    run_row,         \* the task run the endpoint is called for, or NoneV
    task_row,        \* the run's task in the tasks table, or NoRow
    spc              \* position of set_run_as_cached_workflow

vars == <<workflow, pc, step_index, action_pos, step_actions, action_failed,
          failed_action, history, screenshots, final_result, raised,
          attempt, ai_actions, ai_success, dispatched, fallback_calls,
          failed_steps, engine_log, page,
          steps, parameters, templated_steps, template, parameter_values,
          workflow_json, parameterized, tpc, terror,
          request, apc, session, calls, response, agent_error,
          ai_task, rpc, alive, port_owner, cdp, applied,
          run_row, task_row, spc>>

sessions == <<rpc, alive, port_owner, cdp, applied>>

store == <<run_row, task_row, spc>>

agent == <<request, apc, session, calls, response, agent_error>>

replay == <<workflow, pc, step_index, action_pos, step_actions, action_failed,
            failed_action, history, screenshots, final_result, raised,
            attempt, ai_actions, ai_success, dispatched, fallback_calls,
            failed_steps, engine_log, page>>

templating == <<steps, parameters, templated_steps, template, parameter_values,
                workflow_json, parameterized, tpc, terror>>

\* ---------------------------------------------------------------- bounds
MaxSteps == 2
MaxActions == 3
\* the number of steps of one replay in which a cached action fails
MaxFailedSteps == 1

\* ------------------------------------------------------------- constants
MAX_AI_FALLBACK_RETRIES == 3

NoneV == "None"

\* ------------------------------------------------------------ data model
\* The cached actions of a workflow step are the first n names of this list:
\* two that drive the browser, one that execute_action only logs, two more
\* that drive the browser.
CatalogActions == <<"navigate", "scroll", "extract", "input", "click">>

\* execute_action: the names whose branch awaits a browser operation.
PerformsBrowserOp(name) ==
    name \in {"search", "navigate", "go_back", "wait", "click", "input",
              "upload_file", "scroll", "find_text", "send_keys", "evaluate",
              "select_dropdown"}

\* execute_action: every operation the name's branch awaits is given a
\* timeout. page.evaluate (scroll, find_text, evaluate), page.keyboard.press
\* (send_keys) and page.keyboard.type (input with clear false) take none.
CarriesTimeout(name) ==
    name \notin {"input", "scroll", "find_text", "send_keys", "evaluate"}

\* str(e) of the exceptions a cached action can end with.
DispatchError == "dispatch error"
WaitError == "page closed"

\* fallback_reason = None and fallback_attempt = None of an action that the
\* fallback did not produce
NoReason == [action |-> NoneV, error |-> NoneV]
NoAttempt == 0

\* models.Action
Action(name, success, error, by_ai, reason, att) ==
    [name |-> name, is_done |-> TRUE, success |-> success, error |-> error,
     executed_by_ai |-> by_ai, fallback_reason |-> reason,
     fallback_attempt |-> att]

\* Action(name=..., params=..., is_done=True, success=True)
SuccessRecord(name) == Action(name, TRUE, NoneV, FALSE, NoReason, NoAttempt)

\* Action(name=..., params=..., is_done=True, success=False, error=str(e))
FailedRecord(name, err) == Action(name, FALSE, err, FALSE, NoReason, NoAttempt)

\* failed_action = None
NoAction == Action(NoneV, FALSE, NoneV, FALSE, NoReason, NoAttempt)

\* models.HistoryItem
HistoryItem(description, actions) ==
    [description |-> description, actions |-> actions]

StepDescription(i) == <<"step", i>>

\* The workflows handed to replay_workflow: steps = workflow.get("steps", []).
Workflows ==
    UNION {{[i \in 1..k |-> [description |-> StepDescription(i),
                             actions |-> SubSeq(CatalogActions, 1, n[i])]] :
              n \in [1..k -> 0..MaxActions]} :
           k \in 0..MaxSteps}

\* CurrentStep reading the first step whatever the loop's position
CurrentStepFirst == workflow[1]

\* step, the loop variable of line 185
CurrentStep == workflow[step_index]
CurrentActions == CurrentStep.actions

\* Screenshot taken once, of the page after the first step
ScreenshotOfFirstStep(i) == <<"screenshot", 1>>

\* page.screenshot(...).hex() taken while step i is current
Screenshot(i) == <<"screenshot", i>>

\* ------------------------------------------------------ the engine's side
\* An engine action as extract_history builds it (no fallback metadata yet).
AiNames == <<"ai_1", "ai_2", "ai_3", "ai_4">>
EngineAction(n) == Action(AiNames[n], TRUE, NoneV, FALSE, NoReason, NoAttempt)

\* engine_result.history: a sequence of HistoryItems, each with a list of
\* actions (a step of the agent without model output has none).
EngineHistories ==
    {<<HistoryItem("goal 1", <<>>)>>,
     <<HistoryItem("goal 1", <<EngineAction(1), EngineAction(2)>>),
       HistoryItem("goal 2", <<>>),
       HistoryItem("goal 3", <<EngineAction(3)>>)>>}

\* ------------------------------------- workflow_ai_fallback_service.py
\* f"Cached action '{failed_action.name}' failed: {failed_action.error}"
FallbackReason(failed) == [action |-> failed.name, error |-> failed.error]

\* MarkAction with a 0-based attempt index
MarkActionZeroBased(a, failed, att) ==
    Action(a.name, a.success, a.error, TRUE, FallbackReason(failed), att - 1)

\* Action(..., executed_by_ai=True, fallback_reason=..., fallback_attempt=attempt)
MarkAction(a, failed, att) ==
    Action(a.name, a.success, a.error, TRUE, FallbackReason(failed), att)

RECURSIVE Flatten(_)
Flatten(items) ==
    IF items = <<>> THEN <<>>
    ELSE Head(items).actions \o Flatten(Tail(items))

\* _extract_and_mark_ai_actions
ExtractAndMarkAiActions(engine_history, failed, att) ==
    LET flat == Flatten(engine_history)
    IN  [i \in 1..Len(flat) |-> MarkAction(flat[i], failed, att)]

\* HasNextAttempt with the loop one attempt short
HasNextAttemptShort(att) == att < MAX_AI_FALLBACK_RETRIES - 1

\* for attempt in range(1, MAX_AI_FALLBACK_RETRIES + 1): another attempt
\* follows attempt att
HasNextAttempt(att) == att < MAX_AI_FALLBACK_RETRIES

\* ---------------------------------------------- replay_workflow, locals
\* StartStep with the action loop's position carried over from the last step
StartStepKeepingPosition(i) ==
    /\ step_index' = i
    /\ action_pos' = action_pos
    /\ step_actions' = <<>>
    /\ action_failed' = FALSE
    /\ failed_action' = NoAction

\* The values of a step's locals when its loop body starts (lines 186-189).
StartStep(i) ==
    /\ step_index' = i
    /\ action_pos' = 1
    /\ step_actions' = <<>>
    /\ action_failed' = FALSE
    /\ failed_action' = NoAction

NoPage == [text |-> NoneV, url |-> NoneV]
NoError == [kind |-> NoneV, step |-> <<"step", 0>>]

\* ------------------------------------------- _build_ai_task_with_context
\* original_task_prompt
ORIGINAL_TASK_PROMPT == "original task prompt"

\* workflow_context[-3:] and successful_actions[:3]
CONTEXT_STEPS == 3
CONTEXT_ACTIONS == 3

\* seq[-n:]
LastItems(seq, n) ==
    IF Len(seq) <= n THEN seq ELSE SubSeq(seq, Len(seq) - n + 1, Len(seq))

\* seq[:n]
FirstItems(seq, n) == IF Len(seq) <= n THEN seq ELSE SubSeq(seq, 1, n)

\* SuccessfulActions with the test of a.success dropped
AllActions(actions) == actions

\* [a for a in history_item.actions if a.success]
SuccessfulActions(actions) == SelectSeq(actions, LAMBDA a : a.success)

\* ContextItems over the whole history
ContextItemsWhole(workflow_context) == workflow_context

\* The items the loop of line 146 visits.
ContextItems(workflow_context) == LastItems(workflow_context, CONTEXT_STEPS)

\* Lines 143-153: one entry per visited item, its description and the names
\* that follow "actions:".
ContextSummary(workflow_context) ==
    LET items == ContextItems(workflow_context)
    IN  [i \in DOMAIN items |->
            LET named == FirstItems(SuccessfulActions(items[i].actions),
                                    CONTEXT_ACTIONS)
            IN  [description |-> items[i].description,
                 action_names |-> [j \in DOMAIN named |-> named[j].name]]]

\* Lines 157-171: the parts the f-string is made of.
BuildAiTaskWithContext(step_description, failed, workflow_context, original_task_prompt) ==
    [step_description |-> step_description,
     original_task_prompt |-> original_task_prompt,
     context_summary |-> ContextSummary(workflow_context),
     failed_name |-> failed.name,
     failed_error |-> failed.error]

\* No orchestrator call is in progress.
NoTask == BuildAiTaskWithContext(NoneV, NoAction, <<>>, NoneV)

\* ------------------------------------------------- the browser sessions
\* the task runs that execute at the same time
MaxRuns == 3
Runs == 1..MaxRuns
NoBrowser == 0

\* No task run is modelled.
SessionsIdle ==
    /\ rpc = [r \in Runs |-> "idle"]
    /\ alive = {}
    /\ port_owner = NoBrowser
    /\ cdp = [r \in Runs |-> NoBrowser]
    /\ applied = {}

\* get_task(...) is None, and Task.cached_workflow is None
NoRow == [missing |-> TRUE]
NoWorkflow == [none |-> TRUE]

\* set_run_as_cached_workflow is not running.
StoreIdle ==
    /\ run_row = NoneV
    /\ task_row = NoRow
    /\ spc = "idle"

\* No request is left.
NoRequest == [use_cached_workflow |-> FALSE, parameters |-> <<>>, webhook_url |-> FALSE]

\* execute_agent is not running and no LLM response is being parsed.
AgentIdle ==
    /\ request = NoRequest
    /\ apc = "idle"
    /\ session = "none"
    /\ calls = <<>>
    /\ response = <<>>
    /\ agent_error = NoneV

\* No templating function is running.
TemplatingIdle ==
    /\ steps = <<>>
    /\ parameters = <<>>
    /\ templated_steps = <<>>
    /\ template = <<>>
    /\ parameter_values = <<>>
    /\ workflow_json = <<>>
    /\ parameterized = <<>>
    /\ tpc = "idle"
    /\ terror = NoneV

ReplayInit ==
    /\ SessionsIdle
    /\ StoreIdle
    /\ ai_task = NoTask
    /\ AgentIdle
    /\ TemplatingIdle
    /\ workflow \in Workflows
    /\ pc = IF Len(workflow) = 0 THEN "final" ELSE "actions"
    /\ step_index = 1
    /\ action_pos = 1
    /\ step_actions = <<>>
    /\ action_failed = FALSE
    /\ failed_action = NoAction
    /\ history = <<>>
    /\ screenshots = <<>>
    /\ final_result = NoneV
    /\ raised = NoError
    /\ attempt = 0
    /\ ai_actions = <<>>
    /\ ai_success = FALSE
    /\ dispatched = {}
    /\ fallback_calls = <<>>
    /\ failed_steps = {}
    /\ engine_log = <<>>
    /\ page = NoPage

Init == ReplayInit

step_locals == <<step_index, action_pos, step_actions, action_failed, failed_action>>
fallback_vars == <<attempt, ai_actions, ai_success>>
result_vars == <<history, screenshots, final_result, raised, page>>
observations == <<dispatched, fallback_calls, failed_steps>>

\* ------------------------------------- replay_workflow, the action loop
\* The for loop of line 194 takes another cached action: the `break` of line
\* 232 has not been reached and an action is left.
LoopContinues(failed, pos, n) == ~failed /\ pos <= n

\* RecordsAfterRaise with the failed record left out
RecordsAfterRaiseDropped(recs, name, err) == recs

\* The record list after execute_action raised for the action called name
\* (lines 219-226).
RecordsAfterRaise(recs, name, err) == Append(recs, FailedRecord(name, err))

\* The record list after execute_action returned for the action called name
\* (lines 205-210).
RecordsAfterSuccess(recs, name) == Append(recs, SuccessRecord(name))

\* The cached action at the loop's position can be taken.
CanDispatch ==
    /\ pc = "actions"
    /\ action_pos <= Len(CurrentActions)
    /\ LoopContinues(action_failed, action_pos, Len(CurrentActions))

\* Another step of the replay may fail (the bound on the browser's failures).
MayFail == Cardinality(failed_steps) < MaxFailedSteps

\* Lines 194-213: execute_action returns, the success record is appended and
\* the stabilisation wait returns.
DispatchOk ==
    /\ CanDispatch
    /\ dispatched' = dispatched \cup {<<step_index, action_pos>>}
    /\ step_actions' = RecordsAfterSuccess(step_actions, CurrentActions[action_pos])
    /\ action_pos' = action_pos + 1
    /\ UNCHANGED <<store, sessions, agent, templating, workflow, pc, step_index, action_failed, failed_action,
                   fallback_calls, failed_steps, engine_log>>
    /\ UNCHANGED ai_task
    /\ UNCHANGED fallback_vars
    /\ UNCHANGED result_vars

\* Line 202: the operation execute_action awaits never completes and no
\* timeout ends it; replay_workflow stays at the await.
DispatchHangs ==
    /\ CanDispatch
    /\ PerformsBrowserOp(CurrentActions[action_pos])
    /\ ~CarriesTimeout(CurrentActions[action_pos])
    /\ dispatched' = dispatched \cup {<<step_index, action_pos>>}
    /\ pc' = "hung"
    /\ UNCHANGED <<store, sessions, agent, templating, workflow, step_index, action_pos, step_actions,
                   action_failed, failed_action, fallback_calls, failed_steps,
                   engine_log>>
    /\ UNCHANGED ai_task
    /\ UNCHANGED fallback_vars
    /\ UNCHANGED result_vars

\* Lines 200-202 and 215-232: execute_action raises; the failed record is
\* appended and the loop is left.
DispatchRaise ==
    /\ CanDispatch
    /\ MayFail
    /\ PerformsBrowserOp(CurrentActions[action_pos])
    /\ dispatched' = dispatched \cup {<<step_index, action_pos>>}
    /\ failed_action' = FailedRecord(CurrentActions[action_pos], DispatchError)
    /\ step_actions' = RecordsAfterRaise(step_actions, CurrentActions[action_pos],
                                         DispatchError)
    /\ action_failed' = TRUE
    /\ action_pos' = action_pos + 1
    /\ failed_steps' = failed_steps \cup {step_index}
    /\ UNCHANGED <<store, sessions, agent, templating, workflow, pc, step_index, fallback_calls, engine_log>>
    /\ UNCHANGED ai_task
    /\ UNCHANGED fallback_vars
    /\ UNCHANGED result_vars

\* Lines 202-213 and 215-232: execute_action returns and the success record
\* is appended, then page.wait_for_timeout(500) raises inside the same try.
DispatchWaitRaise ==
    /\ CanDispatch
    /\ MayFail
    /\ dispatched' = dispatched \cup {<<step_index, action_pos>>}
    /\ failed_action' = FailedRecord(CurrentActions[action_pos], WaitError)
    /\ step_actions' =
         RecordsAfterRaise(
             RecordsAfterSuccess(step_actions, CurrentActions[action_pos]),
             CurrentActions[action_pos], WaitError)
    /\ action_failed' = TRUE
    /\ action_pos' = action_pos + 1
    /\ failed_steps' = failed_steps \cup {step_index}
    /\ UNCHANGED <<store, sessions, agent, templating, workflow, pc, step_index, fallback_calls, engine_log>>
    /\ UNCHANGED ai_task
    /\ UNCHANGED fallback_vars
    /\ UNCHANGED result_vars

\* The action loop of the current step has ended.
LoopEnded ==
    /\ pc = "actions"
    /\ ~LoopContinues(action_failed, action_pos, Len(CurrentActions))

\* NeedsFallback with the test of the flag dropped
NeedsFallbackAlways(failed) == TRUE

\* `if action_failed:` of line 235
NeedsFallback(failed) == failed

\* Lines 235-247: execute_step_with_ai_fallback is called and its retry loop
\* starts.
TriggerFallback ==
    /\ LoopEnded
    /\ NeedsFallback(action_failed)
    /\ pc' = "fallback"
    /\ attempt' = 1
    /\ fallback_calls' = Append(fallback_calls, step_index)
    /\ engine_log' = <<>>
    /\ UNCHANGED <<store, sessions, agent, templating, workflow, ai_actions, ai_success, dispatched, failed_steps>>
    /\ ai_task' = BuildAiTaskWithContext(CurrentStep.description, failed_action,
                                           history, ORIGINAL_TASK_PROMPT)
    /\ UNCHANGED step_locals
    /\ UNCHANGED result_vars

\* ------------------------- execute_step_with_ai_fallback, the retry loop
\* AttemptFailed giving up at the first failed attempt
AttemptFailedGivesUp ==
    /\ pc' = "fallback_returned"
    /\ ai_actions' = <<>>
    /\ ai_success' = FALSE
    /\ UNCHANGED attempt

\* What a failed attempt leads to (lines 108-124): the next attempt, or the
\* return of ([], False) once the loop is exhausted.
AttemptFailed ==
    IF HasNextAttempt(attempt)
    THEN /\ attempt' = attempt + 1
         /\ UNCHANGED <<pc, ai_actions, ai_success>>
    ELSE /\ pc' = "fallback_returned"
         /\ ai_actions' = <<>>
         /\ ai_success' = FALSE
         /\ UNCHANGED attempt

\* Lines 72-86 raise before engine_service.run is called (get_llm,
\* get_engine_service or AgentRequest); the except branch counts the attempt.
AttemptSetupRaises ==
    /\ pc = "fallback"
    /\ AttemptFailed
    /\ UNCHANGED <<store, sessions, agent, templating, workflow, engine_log>>
    /\ UNCHANGED ai_task
    /\ UNCHANGED step_locals
    /\ UNCHANGED observations
    /\ UNCHANGED result_vars

\* Lines 89-93 and 114-120: engine_service.run raises.
AttemptEngineRaises ==
    /\ pc = "fallback"
    /\ engine_log' = Append(engine_log, "raised")
    /\ AttemptFailed
    /\ UNCHANGED <<store, sessions, agent, templating, workflow>>
    /\ UNCHANGED ai_task
    /\ UNCHANGED step_locals
    /\ UNCHANGED observations
    /\ UNCHANGED result_vars

\* Lines 89-96 and 108-112: the engine result is not successful.
AttemptUnsuccessful ==
    /\ pc = "fallback"
    /\ engine_log' = Append(engine_log, "unsuccessful")
    /\ AttemptFailed
    /\ UNCHANGED <<store, sessions, agent, templating, workflow>>
    /\ UNCHANGED ai_task
    /\ UNCHANGED step_locals
    /\ UNCHANGED observations
    /\ UNCHANGED result_vars

\* AttemptSucceeds without the return of line 106: the loop goes on
AttemptSucceedsWithoutReturn ==
    /\ pc = "fallback"
    /\ engine_log' = Append(engine_log, "successful")
    /\ AttemptFailed
    /\ UNCHANGED <<store, sessions, agent, templating, workflow>>
    /\ UNCHANGED ai_task
    /\ UNCHANGED step_locals
    /\ UNCHANGED observations
    /\ UNCHANGED result_vars

\* Lines 96-106: the engine result is successful; its actions are marked and
\* returned with True.
AttemptSucceeds ==
    /\ pc = "fallback"
    /\ \E h \in EngineHistories :
          ai_actions' = ExtractAndMarkAiActions(h, failed_action, attempt)
    /\ engine_log' = Append(engine_log, "successful")
    /\ ai_success' = TRUE
    /\ pc' = "fallback_returned"
    /\ UNCHANGED <<store, sessions, agent, templating, workflow, attempt>>
    /\ UNCHANGED ai_task
    /\ UNCHANGED step_locals
    /\ UNCHANGED observations
    /\ UNCHANGED result_vars

\* ------------------------------------------ replay_workflow, end of step
\* Lines 185 and 284: the step loop goes to the next step, or ends.
Advance ==
    IF step_index < Len(workflow)
    THEN /\ StartStep(step_index + 1)
         /\ pc' = "actions"
    ELSE /\ pc' = "final"
         /\ UNCHANGED step_locals

\* ActionsAfterFallback extending the cached records instead of replacing them
ActionsAfterFallbackKeepCached(cached, generated) == cached \o generated

\* ActionsAfterExhaustion keeping nothing but the failed record
ActionsAfterExhaustionOnlyFailed(recs, failed) == <<failed>>

\* The action list that replaces step_actions after a successful fallback
\* (line 269).
ActionsAfterFallback(cached, generated) == generated

\* The action list of the history item of a step whose fallback was
\* exhausted (lines 259-262).
ActionsAfterExhaustion(recs, failed) == recs

\* Lines 271-282 after the action loop ended with action_failed = False.
StepSucceeded ==
    /\ LoopEnded
    /\ ~NeedsFallback(action_failed)
    /\ screenshots' = Append(screenshots, Screenshot(step_index))
    /\ history' = Append(history, HistoryItem(CurrentStep.description, step_actions))
    /\ Advance
    /\ UNCHANGED <<store, sessions, agent, templating, workflow, final_result, raised, page, engine_log>>
    /\ UNCHANGED ai_task
    /\ UNCHANGED observations
    /\ UNCHANGED fallback_vars

\* Lines 267-282: the fallback returned success.
FallbackSucceeded ==
    /\ pc = "fallback_returned"
    /\ ai_success
    /\ screenshots' = Append(screenshots, Screenshot(step_index))
    /\ history' = Append(history,
                         HistoryItem(CurrentStep.description,
                                     ActionsAfterFallback(step_actions, ai_actions)))
    /\ Advance
    /\ attempt' = 0
    /\ ai_actions' = <<>>
    /\ ai_success' = FALSE
    /\ engine_log' = <<>>
    /\ UNCHANGED <<store, sessions, agent, templating, workflow, final_result, raised, page>>
    /\ ai_task' = NoTask
    /\ UNCHANGED observations

\* The exception of line 265:
\* f"AI fallback failed for step '{step_description}' after all retries"
FallbackExhaustedError(description) ==
    [kind |-> "fallback_exhausted", step |-> description]

\* AfterExhaustion without the raise: the step loop goes on
AfterExhaustionContinue(description) ==
    /\ Advance
    /\ UNCHANGED raised

\* Where replay_workflow goes when the fallback returned failure (line 265).
AfterExhaustion(description) ==
    /\ pc' = "raised"
    /\ raised' = FallbackExhaustedError(description)
    /\ UNCHANGED step_locals

\* Lines 249-265: the fallback returned failure.
FallbackExhausted ==
    /\ pc = "fallback_returned"
    /\ ~ai_success
    /\ screenshots' = Append(screenshots, Screenshot(step_index))
    /\ history' = Append(history,
                         HistoryItem(CurrentStep.description,
                                     ActionsAfterExhaustion(step_actions, failed_action)))
    /\ AfterExhaustion(CurrentStep.description)
    /\ engine_log' = <<>>
    /\ UNCHANGED <<store, sessions, agent, templating, workflow, final_result, page>>
    /\ ai_task' = NoTask
    /\ UNCHANGED observations
    /\ UNCHANGED fallback_vars

\* An exception of the page that no handler of replay_workflow catches.
PageError == [kind |-> "page_error", step |-> <<"step", 0>>]

\* page.screenshot raises at line 254 or 272.
ScreenshotRaises ==
    /\ \/ LoopEnded /\ ~NeedsFallback(action_failed)
       \/ pc = "fallback_returned"
    /\ pc' = "raised"
    /\ raised' = PageError
    /\ engine_log' = <<>>
    /\ UNCHANGED <<store, sessions, agent, templating, workflow, history, screenshots, final_result, page>>
    /\ UNCHANGED ai_task
    /\ UNCHANGED step_locals
    /\ UNCHANGED observations
    /\ UNCHANGED fallback_vars

\* ------------------------------------------- replay_workflow, the result
\* document.body.innerText as page.evaluate returns it, and page.url
PageTexts == {"", "page text"}
PageUrls == {"about:blank", "https://example.test/"}

\* Python truthiness of a str or None
Truthy(v) == v # NoneV /\ v # ""

\* Python's `a or b`
PyOr(a, b) == IF Truthy(a) THEN a ELSE b

\* FinalResult without the fallback to the address
FinalResultTextOnly(text, url) == text

\* page.evaluate("document.body.innerText") or page.url
FinalResult(text, url) == PyOr(text, url)

\* Lines 284-289.
ReturnResult ==
    /\ pc = "final"
    /\ \E text \in PageTexts, url \in PageUrls :
          /\ page' = [text |-> text, url |-> url]
          /\ final_result' = FinalResult(text, url)
    /\ pc' = "returned"
    /\ UNCHANGED <<store, sessions, agent, templating, workflow, history, screenshots, raised, engine_log>>
    /\ UNCHANGED ai_task
    /\ UNCHANGED step_locals
    /\ UNCHANGED observations
    /\ UNCHANGED fallback_vars

\* page.evaluate raises at line 285.
EvaluateRaises ==
    /\ pc = "final"
    /\ pc' = "raised"
    /\ raised' = PageError
    /\ UNCHANGED <<store, sessions, agent, templating, workflow, history, screenshots, final_result, page, engine_log>>
    /\ UNCHANGED ai_task
    /\ UNCHANGED step_locals
    /\ UNCHANGED observations
    /\ UNCHANGED fallback_vars

Next ==
    \/ DispatchOk
    \/ DispatchHangs
    \/ DispatchRaise
    \/ DispatchWaitRaise
    \/ TriggerFallback
    \/ AttemptSetupRaises
    \/ AttemptEngineRaises
    \/ AttemptUnsuccessful
    \/ AttemptSucceeds
    \/ StepSucceeded
    \/ FallbackSucceeded
    \/ FallbackExhausted
    \/ ScreenshotRaises
    \/ ReturnResult
    \/ EvaluateRaises

Spec == Init /\ [][Next]_vars

\* ============================================================ templating
\* A str is a sequence of characters; the characters that matter to the
\* templating functions are the braces, the space, identifier letters, the
\* double quote, the backslash and two control characters.
LBRACE == "{"
RBRACE == "}"
SPACE == " "
DQUOTE == "dquote"
BACKSLASH == "backslash"
\* U+0008 and U+0007
BACKSPACE == "backspace"
BELL == "bell"

Letters == {"a", "b", "x", "y"}
ControlChars == {BACKSPACE, BELL}

\* a str result, or the exception in place of it
Ok(text) == [ok |-> TRUE, text |-> text]
Raises == [ok |-> FALSE, text |-> <<>>]

\* text[i:].startswith(pat)
StartsWithAt(text, i, pat) ==
    /\ i + Len(pat) - 1 <= Len(text)
    /\ SubSeq(text, i, i + Len(pat) - 1) = pat

\* old occurs in text (`old in text`)
Contains(text, old) == \E i \in 1..(Len(text) + 1) : StartsWithAt(text, i, old)

\* re.sub(re.escape(old), ..., text) for a non-empty old: the occurrences of
\* the literal old are replaced from left to right, without overlap, by the
\* expanded replacement.
RECURSIVE ReplaceFrom(_, _, _, _)
ReplaceFrom(text, i, old, new) ==
    IF i > Len(text) THEN <<>>
    ELSE IF StartsWithAt(text, i, old)
         THEN new \o ReplaceFrom(text, i + Len(old), old, new)
         ELSE <<text[i]>> \o ReplaceFrom(text, i + 1, old, new)

\* The replacement template of re.sub as the re module expands it: "\\\\"
\* gives a backslash, "\\a" and "\\b" the control characters, a backslash
\* before another ASCII letter or at the end is re.error, a backslash before
\* any other character stays with that character.
RECURSIVE ExpandTemplate(_)
ExpandTemplate(repl) ==
    IF repl = <<>> THEN Ok(<<>>)
    ELSE IF Head(repl) # BACKSLASH
    THEN LET rest == ExpandTemplate(Tail(repl))
         IN  IF rest.ok THEN Ok(<<Head(repl)>> \o rest.text) ELSE Raises
    ELSE IF Len(repl) = 1 THEN Raises
    ELSE LET c == repl[2]
             rest == ExpandTemplate(SubSeq(repl, 3, Len(repl)))
             here == IF c = BACKSLASH THEN <<BACKSLASH>>
                     ELSE IF c = "a" THEN <<BELL>>
                     ELSE IF c = "b" THEN <<BACKSPACE>>
                     ELSE <<BACKSLASH, c>>
         IN  IF c \in Letters \ {"a", "b"} THEN Raises
             ELSE IF rest.ok THEN Ok(here \o rest.text) ELSE Raises

\* re.sub(re.escape(old), repl, text): the template is compiled before the
\* search, so a bad template raises whether or not old occurs.
ReSub(old, repl, text) ==
    LET new == ExpandTemplate(repl)
    IN  IF new.ok THEN Ok(ReplaceFrom(text, 1, old, new.text)) ELSE Raises

\* json.dumps of a str, without the enclosing quotes
RECURSIVE JsonEscape(_)
JsonEscape(text) ==
    IF text = <<>> THEN <<>>
    ELSE LET c == Head(text)
             esc == IF c = DQUOTE THEN <<BACKSLASH, DQUOTE>>
                    ELSE IF c = BACKSLASH THEN <<BACKSLASH, BACKSLASH>>
                    ELSE IF c = BACKSPACE THEN <<BACKSLASH, "b">>
                    ELSE IF c = BELL THEN <<BACKSLASH, "u", "0", "0", "0", "7">>
                    ELSE <<c>>
         IN  esc \o JsonEscape(Tail(text))

\* json.loads of the body of a string literal. A raw double quote ends the
\* literal early, and since no text of the model holds a comma, a colon or a
\* bracket, what follows it is no JSON: json.loads raises. A raw control
\* character and a backslash before a character that is no JSON escape raise
\* as well.
RECURSIVE JsonUnescape(_)
JsonUnescape(body) ==
    IF body = <<>> THEN Ok(<<>>)
    ELSE IF Head(body) = DQUOTE \/ Head(body) \in ControlChars THEN Raises
    ELSE IF Head(body) # BACKSLASH
    THEN LET rest == JsonUnescape(Tail(body))
         IN  IF rest.ok THEN Ok(<<Head(body)>> \o rest.text) ELSE Raises
    ELSE IF Len(body) = 1 THEN Raises
    ELSE IF StartsWithAt(body, 2, <<"u", "0", "0", "0", "7">>)
    THEN LET rest == JsonUnescape(SubSeq(body, 7, Len(body)))
         IN  IF rest.ok THEN Ok(<<BELL>> \o rest.text) ELSE Raises
    ELSE LET c == body[2]
             rest == JsonUnescape(SubSeq(body, 3, Len(body)))
         IN  IF c \notin {DQUOTE, BACKSLASH, "b"} THEN Raises
             ELSE IF ~rest.ok THEN Raises
             ELSE Ok(<<(IF c = "b" THEN BACKSPACE ELSE c)>> \o rest.text)

\* ------------------------------------------------------------ placeholders
\* template_var = f"{{{{ {name} }}}}"
TemplateVar(name) == <<LBRACE, LBRACE, SPACE>> \o name \o <<SPACE, RBRACE, RBRACE>>

\* \w and \s of the Resolver's scan
IsWord(c) == c \in Letters
IsSpace(c) == c = SPACE

\* The first position at or after i that holds no \s, and no \w.
RECURSIVE SkipSpaces(_, _)
SkipSpaces(text, i) ==
    IF i <= Len(text) /\ IsSpace(text[i]) THEN SkipSpaces(text, i + 1) ELSE i

RECURSIVE SkipWord(_, _)
SkipWord(text, i) ==
    IF i <= Len(text) /\ IsWord(text[i]) THEN SkipWord(text, i + 1) ELSE i

\* The pattern r'\{\{\s*(\w+)\s*\}\}' of line 43 matches at position i.
ScanMatchesAt(text, i) ==
    LET p == SkipSpaces(text, i + 2)
        q == SkipWord(text, p)
        r == SkipSpaces(text, q)
    IN  /\ StartsWithAt(text, i, <<LBRACE, LBRACE>>)
        /\ q > p
        /\ StartsWithAt(text, r, <<RBRACE, RBRACE>>)

\* The name the pattern captures at position i.
ScanName(text, i) ==
    LET p == SkipSpaces(text, i + 2)
    IN  SubSeq(text, p, SkipWord(text, p) - 1)

\* re.findall(template_pattern, text): the set of the captured names
TemplateVarsFound(text) ==
    {ScanName(text, i) : i \in {j \in 1..Len(text) : ScanMatchesAt(text, j)}}

\* ------------------------------------------------------------ the step tree
\* The step tree is given by its fields in document order. The kinds are the
\* keys under which build_workflow_from_run finds them.
Field(kind, text) == [kind |-> kind, text |-> text]

\* step.pop("task_run_id"), step.pop("screenshot"), action.pop("id"),
\* action.pop("task_run_id")
StrippedKinds == {"task_run_id", "screenshot", "id"}

\* The field rewritten with _replace_in_dict; a step's description and an
\* action's name and extracted_content are rewritten with _safe_replace.
ParamsKind == "params"

\* The keys of an action that hold its strings.
ActionKinds == {"name", "extracted_content", ParamsKind}

\* The keys whose strings lines 134-155 rewrite with _safe_replace.
TemplatedKinds == {"description", "name", "extracted_content"}

\* RunStep.to_dict and RunAction.to_dict: the keys of a persisted step and of
\* a persisted action that hold a number; SEQNO is the number they hold.
SEQNO == "1"

\* The names found by the Resolver's scan in the serialised workflow.
TemplateVarsOf(fields) ==
    UNION {TemplateVarsFound(JsonEscape(fields[i].text)) : i \in DOMAIN fields}

\* --------------------------------------------------- build_workflow_from_run
\* models.ParameterDefinition, its name and example value
ParameterDefinition(name, example_value) ==
    [name |-> name, example_value |-> example_value]

\* Lines 117-127.
CleanSteps(fields) == SelectSeq(fields, LAMBDA f : f.kind \notin StrippedKinds)

\* _safe_replace
SafeReplace(text, old_value, new_value) ==
    IF old_value = <<>> THEN Ok(text) ELSE ReSub(old_value, new_value, text)

\* _replace_in_dict on a str leaf
ReplaceInDict(obj, old_value, new_value) ==
    IF obj = old_value THEN new_value ELSE obj

\* Lines 134-155 for one field: the guards `step.get("description") and
\* value_to_replace` and the like, then the replacement.
TemplateField(f, value_to_replace, template_var) ==
    IF f.kind = ParamsKind
    THEN Ok(ReplaceInDict(f.text, value_to_replace, template_var))
    ELSE IF f.kind \in TemplatedKinds /\ f.text # <<>> /\ value_to_replace # <<>>
         THEN SafeReplace(f.text, value_to_replace, template_var)
         ELSE Ok(f.text)

\* Lines 130-155: the body of the loop over the parameters, for one parameter.
TemplateOneParameter(fields, param) ==
    [i \in DOMAIN fields |->
        Field(fields[i].kind,
              TemplateField(fields[i], param.example_value,
                            TemplateVar(param.name)).text)]

\* TemplateAll taking the parameters from the last to the first
RECURSIVE TemplateAllLastFirst(_, _)
TemplateAllLastFirst(fields, params) ==
    IF params = <<>> THEN fields
    ELSE TemplateAllLastFirst(
             TemplateOneParameter(fields, params[Len(params)]),
             SubSeq(params, 1, Len(params) - 1))

\* Lines 130-155: the loop over the parameters, in list order.
RECURSIVE TemplateAll(_, _)
TemplateAll(fields, params) ==
    IF params = <<>> THEN fields
    ELSE TemplateAll(TemplateOneParameter(fields, Head(params)), Tail(params))

\* ------------------------------------------------ apply_parameters_to_workflow
\* json.dumps(processed_workflow): the bodies of the string literals of the
\* step tree, in document order. The text between them holds no brace, so no
\* match of a template variable begins or ends outside a body.
Dumps(fields) == [i \in DOMAIN fields |-> JsonEscape(fields[i].text)]

\* Lines 132-136 for one parameter, on every body: re.sub compiles the value
\* as a replacement template, then replaces.
SubInJson(bodies, param_name, param_value) ==
    LET new == ExpandTemplate(param_value)
    IN  IF new.ok
        THEN [ok |-> TRUE,
              bodies |-> [i \in DOMAIN bodies |->
                            ReplaceFrom(bodies[i], 1, TemplateVar(param_name),
                                        new.text)]]
        ELSE [ok |-> FALSE, bodies |-> <<>>]

\* Lines 132-136: the loop over parameter_values.items().
RECURSIVE SubAllInJson(_, _)
SubAllInJson(bodies, values) ==
    IF values = <<>> THEN [ok |-> TRUE, bodies |-> bodies]
    ELSE LET one == SubInJson(bodies, Head(values).name, Head(values).value)
         IN  IF one.ok THEN SubAllInJson(one.bodies, Tail(values)) ELSE one

\* json.loads(workflow_json) returns iff every body is a JSON string body.
LoadsReturns(bodies) == \A i \in DOMAIN bodies : JsonUnescape(bodies[i]).ok

\* json.loads(workflow_json) when it returns: the step tree with the decoded
\* strings.
Loads(fields, bodies) ==
    [i \in DOMAIN fields |-> Field(fields[i].kind, JsonUnescape(bodies[i]).text)]

\* --------------------------------------------------------------- the inputs
\* the number of pieces a description is made of
MaxPieces == 2

NameA == <<"a">>
NameB == <<"b">>

\* All concatenations of at most n texts of the set pieces.
RECURSIVE Concats(_, _)
Concats(pieces, n) ==
    IF n = 0 THEN {<<>>}
    ELSE LET shorter == Concats(pieces, n - 1)
         IN  shorter \cup {s \o p : s \in shorter, p \in pieces}

\* What a stored template's description is made of: template variables as
\* the builder writes them, one without the spaces, plain text, opening and
\* closing braces, a double quote, a backslash.
TemplatePieces ==
    {TemplateVar(NameA), TemplateVar(NameB),
     <<LBRACE, LBRACE, "a", RBRACE, RBRACE>>, <<"x">>,
     <<LBRACE, LBRACE, SPACE>>, <<SPACE, RBRACE, RBRACE>>,
     <<DQUOTE>>, <<BACKSLASH>>}

\* The templates handed to apply_parameters_to_workflow: one step with a
\* description and one action with a name.
Templates ==
    {<<Field("description", d), Field("name", n)>> :
        d \in Concats(TemplatePieces, MaxPieces),
        n \in {<<"x">>, TemplateVar(NameA)}}

\* The values the Resolver's LLM call returns for a and for b.
ValuesOfA ==
    {<<"x">>, <<"b">>, <<DQUOTE>>, <<BACKSLASH>>, <<BACKSLASH, BACKSLASH>>,
     <<BACKSLASH, DQUOTE>>, <<BACKSLASH, "b">>, <<BACKSLASH, "x">>,
     TemplateVar(NameA), TemplateVar(NameB), <<>>}
ValuesOfB == {<<"y">>, TemplateVar(NameA)}

Resolved(name, value) == [name |-> name, value |-> value]

\* parameter_values: the items of the dict in their order.
ValueMappings ==
    {<<>>}
    \cup {<<Resolved(NameA, v)>> : v \in ValuesOfA}
    \cup {<<Resolved(NameB, w)>> : w \in ValuesOfB}
    \cup {<<Resolved(NameA, v), Resolved(NameB, w)>> :
             v \in ValuesOfA, w \in ValuesOfB}
    \cup {<<Resolved(NameB, w), Resolved(NameA, v)>> :
             v \in ValuesOfA, w \in ValuesOfB}

\* What a recorded description is made of.
RecordedPieces ==
    {<<"x">>, <<"y">>, <<DQUOTE>>, <<BACKSLASH>>, <<RBRACE>>, TemplateVar(NameA)}

\* The recorded steps handed to build_workflow_from_run, as
\* get_task_run_with_steps returns them: one step with its run id, its number,
\* a description and a screenshot, and one action with its id, run id, step
\* number, action number and one of its string fields.
Recordings ==
    {<<Field("task_run_id", <<SEQNO>>), Field("step_number", <<SEQNO>>),
       Field("description", d), Field("screenshot", <<"x", "y">>),
       Field("id", <<SEQNO>>), Field("task_run_id", <<SEQNO>>),
       Field("step_number", <<SEQNO>>), Field("action_number", <<SEQNO>>),
       Field(k, t)>> :
        d \in Concats(RecordedPieces, MaxPieces),
        k \in ActionKinds,
        t \in {<<>>, <<"x">>, <<"x", "y">>}}

\* The example values the extraction LLM returns for a and for b.
ExamplesOfA ==
    {<<"x">>, <<DQUOTE>>, <<BACKSLASH>>, <<"x", DQUOTE>>, <<RBRACE, "y">>,
     <<"a">>, <<>>}
ExamplesOfB == {<<"y">>, <<"x", "y">>, <<"a">>}

ParameterLists ==
    {<<>>}
    \cup {<<ParameterDefinition(NameA, v)>> : v \in ExamplesOfA}
    \cup {<<ParameterDefinition(NameB, w)>> : w \in ExamplesOfB}
    \cup {<<ParameterDefinition(NameA, v), ParameterDefinition(NameB, w)>> :
             v \in ExamplesOfA, w \in ExamplesOfB}
    \cup {<<ParameterDefinition(NameB, w), ParameterDefinition(NameA, v)>> :
             v \in ExamplesOfA, w \in ExamplesOfB}
    \cup {<<ParameterDefinition(NameA, <<"x">>), ParameterDefinition(NameA, w)>> :
             w \in ExamplesOfB}

\* ------------------------------------------------------------- the actions
\* No replay is running.
ReplayIdle ==
    /\ ai_task = NoTask
    /\ workflow = <<>>
    /\ pc = "idle"
    /\ step_index = 1
    /\ action_pos = 1
    /\ step_actions = <<>>
    /\ action_failed = FALSE
    /\ failed_action = NoAction
    /\ history = <<>>
    /\ screenshots = <<>>
    /\ final_result = NoneV
    /\ raised = NoError
    /\ attempt = 0
    /\ ai_actions = <<>>
    /\ ai_success = FALSE
    /\ dispatched = {}
    /\ fallback_calls = <<>>
    /\ failed_steps = {}
    /\ engine_log = <<>>
    /\ page = NoPage

\* apply_parameters_to_workflow is called with a template and resolved values.
InstantiateInit ==
    /\ SessionsIdle
    /\ StoreIdle
    /\ AgentIdle
    /\ ReplayIdle
    /\ steps = <<>>
    /\ parameters = <<>>
    /\ templated_steps = <<>>
    /\ template \in Templates
    /\ parameter_values \in ValueMappings
    /\ workflow_json = <<>>
    /\ parameterized = <<>>
    /\ tpc = "apply"
    /\ terror = NoneV

\* build_workflow_from_run has extracted the parameters of a recorded run.
RoundTripInit ==
    /\ SessionsIdle
    /\ StoreIdle
    /\ AgentIdle
    /\ ReplayIdle
    /\ steps \in Recordings
    /\ parameters \in ParameterLists
    /\ templated_steps = <<>>
    /\ template = <<>>
    /\ parameter_values = <<>>
    /\ workflow_json = <<>>
    /\ parameterized = <<>>
    /\ tpc = "build"
    /\ terror = NoneV

\* ArgumentAfterClone without the clone: the list that is cleaned and
\* rewritten in place is the caller's list
ArgumentAliased(argument, rewritten) == rewritten

\* templated_steps = json.loads(json.dumps(steps)), line 115: the pops and the
\* assignments of lines 117-155 work on the clone and the caller's list stays
\* as it is.
ArgumentAfterClone(argument, rewritten) == argument

\* build_workflow_from_run, lines 114-159: clone, clean, template, return.
BuildWorkflowFromRun ==
    /\ tpc = "build"
    /\ templated_steps' = TemplateAll(CleanSteps(steps), parameters)
    /\ steps' = ArgumentAfterClone(steps, templated_steps')
    /\ tpc' = "built"
    /\ UNCHANGED <<parameters, template, parameter_values, workflow_json,
                   parameterized, terror>>
    /\ UNCHANGED <<store, sessions, ai_task, agent, replay>>

\* {p.name: p.example_value for p in parameters}: a dict keeps a key at the
\* place of its first insertion and takes the value of its last.
RECURSIVE ExampleValues(_, _)
ExampleValues(params, mapping) ==
    IF params = <<>> THEN mapping
    ELSE LET p == Head(params)
             known == {i \in DOMAIN mapping : mapping[i].name = p.name}
         IN  ExampleValues(
                 Tail(params),
                 IF known = {}
                 THEN Append(mapping, Resolved(p.name, p.example_value))
                 ELSE [i \in DOMAIN mapping |->
                          IF i \in known
                          THEN Resolved(p.name, p.example_value)
                          ELSE mapping[i]])

\* The stored template is replayed with the example values as the resolved
\* values, in the order of the parameter list.
ReplayWithExamples ==
    /\ tpc = "built"
    /\ template' = templated_steps
    /\ parameter_values' = ExampleValues(parameters, <<>>)
    /\ tpc' = "apply"
    /\ UNCHANGED <<steps, parameters, templated_steps, workflow_json,
                   parameterized, terror>>
    /\ UNCHANGED <<store, sessions, ai_task, agent, replay>>

\* apply_parameters_to_workflow returns (lines 126-138).
ApplyReturns ==
    /\ tpc = "apply"
    /\ LET sub == SubAllInJson(Dumps(template), parameter_values)
       IN  /\ sub.ok
           /\ LoadsReturns(sub.bodies)
           /\ workflow_json' = sub.bodies
           /\ parameterized' = Loads(template, sub.bodies)
    /\ tpc' = "returned"
    /\ UNCHANGED <<steps, parameters, templated_steps, template,
                   parameter_values, terror>>
    /\ UNCHANGED <<store, sessions, ai_task, agent, replay>>

\* re.sub raises re.error at line 136: a value is no replacement template.
ApplySubRaises ==
    /\ tpc = "apply"
    /\ ~SubAllInJson(Dumps(template), parameter_values).ok
    /\ tpc' = "raised"
    /\ terror' = "re.error"
    /\ UNCHANGED <<steps, parameters, templated_steps, template,
                   parameter_values, workflow_json, parameterized>>
    /\ UNCHANGED <<store, sessions, ai_task, agent, replay>>

\* json.loads raises JSONDecodeError at line 138.
ApplyLoadsRaises ==
    /\ tpc = "apply"
    /\ LET sub == SubAllInJson(Dumps(template), parameter_values)
       IN  /\ sub.ok
           /\ ~LoadsReturns(sub.bodies)
           /\ workflow_json' = sub.bodies
    /\ tpc' = "raised"
    /\ terror' = "JSONDecodeError"
    /\ UNCHANGED <<steps, parameters, templated_steps, template,
                   parameter_values, parameterized>>
    /\ UNCHANGED <<store, sessions, ai_task, agent, replay>>

NextInstantiate ==
    \/ ApplyReturns
    \/ ApplySubRaises
    \/ ApplyLoadsRaises

SpecInstantiate == InstantiateInit /\ [][NextInstantiate]_vars

NextRoundTrip ==
    \/ BuildWorkflowFromRun
    \/ ReplayWithExamples
    \/ ApplyReturns
    \/ ApplySubRaises
    \/ ApplyLoadsRaises

SpecRoundTrip == RoundTripInit /\ [][NextRoundTrip]_vars

\* ================================================= the LLM-response parser
\* An LLM response is a sequence of lexemes: a code-fence delimiter, the word
\* json, white space, a word, a complete JSON object, and the two halves of
\* a JSON object around the inside of one of its string values.
\* the delimiter of a code fence: three backquotes
FENCE == "fence"
JSONTAG == "json"
WORD == "x"
JSONOBJECT == "object"
STRING_OPEN == "object up to the inside of a string"
STRING_CLOSE == "end of the string and of the object"

Lexemes == {FENCE, JSONTAG, SPACE, WORD, JSONOBJECT, STRING_OPEN, STRING_CLOSE}

\* str.strip()
RECURSIVE LStrip(_)
LStrip(text) ==
    IF text # <<>> /\ Head(text) = SPACE THEN LStrip(Tail(text)) ELSE text

RECURSIVE RStrip(_)
RStrip(text) ==
    IF text # <<>> /\ text[Len(text)] = SPACE
    THEN RStrip(SubSeq(text, 1, Len(text) - 1))
    ELSE text

Strip(text) == RStrip(LStrip(text))

\* json.loads(text) returns: the text is one JSON object, whether complete in
\* one lexeme or with a string value that holds no quote.
IsJson(text) ==
    \/ text = <<JSONOBJECT>>
    \/ /\ Len(text) >= 2
       /\ text[1] = STRING_OPEN
       /\ text[Len(text)] = STRING_CLOSE
       /\ \A i \in 2..(Len(text) - 1) : text[i] \in {FENCE, JSONTAG, SPACE, WORD}

\* The positions of the delimiters after position i, and the first of a set
\* of positions (0 when there is none).
FencesAfter(text, i) == {j \in (i + 1)..Len(text) : text[j] = FENCE}
First(positions) ==
    IF positions = {} THEN 0
    ELSE CHOOSE p \in positions : \A q \in positions : p <= q

\* re.search of the pattern of line 165 (the delimiter, json, \s*, a lazy
\* group, \s*, the delimiter): where the leftmost match begins, 0 without
\* a match.
JsonFenceStart(text) ==
    First({i \in 1..(Len(text) - 1) :
             /\ text[i] = FENCE
             /\ text[i + 1] = JSONTAG
             /\ FencesAfter(text, i + 1) # {}})

\* re.search of the pattern of line 167 (the same without json)
PlainFenceStart(text) ==
    First({i \in 1..Len(text) : text[i] = FENCE /\ FencesAfter(text, i) # {}})

\* json_str: group(1).strip() of the first pattern that matches, the lazy
\* group ending before the nearest closing delimiter; text.strip() when
\* neither pattern matches.
JsonStr(text) ==
    IF JsonFenceStart(text) # 0
    THEN LET i == JsonFenceStart(text)
         IN  Strip(SubSeq(text, i + 2, First(FencesAfter(text, i + 1)) - 1))
    ELSE IF PlainFenceStart(text) # 0
    THEN LET i == PlainFenceStart(text)
         IN  Strip(SubSeq(text, i + 1, First(FencesAfter(text, i)) - 1))
    ELSE Strip(text)

\* json.loads(json_str) returns
ParseReturns(text) == IsJson(JsonStr(text))

\* the number of lexemes of a response
MaxLexemes == 4

RECURSIVE SeqsUpTo(_, _)
SeqsUpTo(S, n) ==
    IF n = 0 THEN {<<>>}
    ELSE LET shorter == SeqsUpTo(S, n - 1)
         IN  shorter \cup {Append(s, x) : s \in shorter, x \in S}

Responses == SeqsUpTo(Lexemes, MaxLexemes)

\* _parse_json_response is called with the text of an LLM response.
ParseInit ==
    /\ SessionsIdle
    /\ StoreIdle
    /\ ReplayIdle
    /\ steps = <<>>
    /\ parameters = <<>>
    /\ templated_steps = <<>>
    /\ template = <<>>
    /\ parameter_values = <<>>
    /\ workflow_json = <<>>
    /\ parameterized = <<>>
    /\ tpc = "parse"
    /\ terror = NoneV
    /\ request = NoRequest
    /\ apc = "idle"
    /\ session = "none"
    /\ calls = <<>>
    /\ response \in Responses
    /\ agent_error = NoneV

\* _parse_json_response returns the parsed object (lines 164-175).
ParseJsonResponseReturns ==
    /\ tpc = "parse"
    /\ ParseReturns(response)
    /\ tpc' = "returned"
    /\ UNCHANGED <<steps, parameters, templated_steps, template,
                   parameter_values, workflow_json, parameterized, terror>>
    /\ UNCHANGED <<store, sessions, ai_task, agent, replay>>

\* json.loads raises and _parse_json_response raises ValueError (lines
\* 175-177).
ParseJsonResponseRaises ==
    /\ tpc = "parse"
    /\ ~ParseReturns(response)
    /\ tpc' = "raised"
    /\ terror' = "ValueError"
    /\ UNCHANGED <<steps, parameters, templated_steps, template,
                   parameter_values, workflow_json, parameterized>>
    /\ UNCHANGED <<store, sessions, ai_task, agent, replay>>

NextParse ==
    \/ ParseJsonResponseReturns
    \/ ParseJsonResponseRaises

SpecParse == ParseInit /\ [][NextParse]_vars

\* ============================================================ execute_agent
\* request.cached_workflow: its "parameters" are request.parameters here and
\* the string fields of its "steps" are the variable template.
DeclaredLists ==
    {<<>>,
     <<ParameterDefinition(NameA, <<"x">>)>>,
     <<ParameterDefinition(NameA, <<"x">>), ParameterDefinition(NameB, <<"y">>)>>,
     <<ParameterDefinition(NameA, TemplateVar(NameB))>>}

AgentTemplates ==
    {<<Field("description", d), Field("name", <<"x">>)>> :
        d \in {<<>>, <<"x">>, TemplateVar(NameA),
               <<LBRACE, LBRACE, "a", RBRACE, RBRACE>>,
               TemplateVar(NameA) \o TemplateVar(NameB)}}

Requests ==
    {[use_cached_workflow |-> TRUE, parameters |-> ps, webhook_url |-> w] :
        ps \in DeclaredLists, w \in BOOLEAN}
    \cup {[use_cached_workflow |-> FALSE, parameters |-> <<>>, webhook_url |-> w] :
            w \in BOOLEAN}

\* The string fields of the whole cached workflow, as json.dumps(workflow)
\* meets them: the example values of the declared parameters, then the
\* fields of the steps.
WorkflowFields(params, fields) ==
    [i \in DOMAIN params |-> Field("exampleValue", params[i].example_value)]
    \o fields

\* What the Resolver's LLM answers, and the parameterValues of a parsed answer.
AgentResponses ==
    {<<JSONOBJECT>>, <<FENCE, JSONTAG, SPACE, JSONOBJECT, SPACE, FENCE>>,
     <<WORD>>, <<STRING_OPEN, FENCE, WORD, FENCE, STRING_CLOSE>>}

AgentMappings ==
    {<<>>, <<Resolved(NameA, <<"x">>)>>, <<Resolved(NameA, <<DQUOTE>>)>>,
     <<Resolved(NameA, <<BACKSLASH>>)>>,
     <<Resolved(NameA, <<"x">>), Resolved(NameB, <<"y">>)>>}

\* ShortCircuits without the test of the declared parameters
ShortCircuitsOnScanOnly(params, fields) ==
    TemplateVarsOf(WorkflowFields(params, fields)) = {}

\* extract_parameters_from_task returns {} without an LLM call: lines 37-39
\* (no declared parameter) and lines 41-48 (no template variable found in
\* json.dumps(workflow)).
ShortCircuits(params, fields) ==
    \/ params = <<>>
    \/ TemplateVarsOf(WorkflowFields(params, fields)) = {}

AgentInit ==
    /\ SessionsIdle
    /\ StoreIdle
    /\ ReplayIdle
    /\ steps = <<>>
    /\ parameters = <<>>
    /\ templated_steps = <<>>
    /\ request \in Requests
    /\ template \in (IF request.use_cached_workflow THEN AgentTemplates ELSE {<<>>})
    /\ parameter_values = <<>>
    /\ workflow_json = <<>>
    /\ parameterized = <<>>
    /\ tpc = "idle"
    /\ terror = NoneV
    /\ apc = "create_session"
    /\ session = "none"
    /\ calls = <<>>
    /\ response = <<>>
    /\ agent_error = NoneV

unused_by_agent == <<steps, parameters, templated_steps, tpc, terror>>

\* AgentRaises with the finally clause skipped
AgentRaisesPastFinally(error) ==
    /\ agent_error' = error
    /\ apc' = "raised"

\* An exception leaves the try block of execute_agent: the finally clause
\* runs next.
AgentRaises(error) ==
    /\ agent_error' = error
    /\ apc' = "finally"

\* Line 165: create_session returns the session.
CreateSession ==
    /\ apc = "create_session"
    /\ session' = "open"
    /\ calls' = Append(calls, "create_session")
    /\ apc' = IF request.use_cached_workflow THEN "resolve" ELSE "engine"
    /\ UNCHANGED <<request, response, agent_error, template, parameter_values,
                   workflow_json, parameterized>>
    /\ UNCHANGED <<store, sessions, ai_task, unused_by_agent, replay>>

\* Line 165: create_session raises, before the try block is entered.
CreateSessionRaises ==
    /\ apc = "create_session"
    /\ calls' = Append(calls, "create_session")
    /\ agent_error' = "SessionError"
    /\ apc' = "raised"
    /\ UNCHANGED <<request, session, response, template, parameter_values,
                   workflow_json, parameterized>>
    /\ UNCHANGED <<store, sessions, ai_task, unused_by_agent, replay>>

\* extract_parameters_from_task returns {} at line 39 or 48, no LLM call made.
ResolveShortCircuit ==
    /\ apc = "resolve"
    /\ ShortCircuits(request.parameters, template)
    /\ parameter_values' = <<>>
    /\ apc' = "apply"
    /\ UNCHANGED <<request, session, calls, response, agent_error, template,
                   workflow_json, parameterized>>
    /\ UNCHANGED <<store, sessions, ai_task, unused_by_agent, replay>>

\* Line 75: get_llm raises.
ResolveGetLlmRaises ==
    /\ apc = "resolve"
    /\ ~ShortCircuits(request.parameters, template)
    /\ AgentRaises("LlmSetupError")
    /\ UNCHANGED <<request, session, calls, response, template,
                   parameter_values, workflow_json, parameterized>>
    /\ UNCHANGED <<store, sessions, ai_task, unused_by_agent, replay>>

\* Lines 75-88: the LLM is invoked and answers.
ResolveInvoke ==
    /\ apc = "resolve"
    /\ ~ShortCircuits(request.parameters, template)
    /\ calls' = Append(calls, "ainvoke")
    /\ response' \in AgentResponses
    /\ apc' = "parse"
    /\ UNCHANGED <<request, session, agent_error, template, parameter_values,
                   workflow_json, parameterized>>
    /\ UNCHANGED <<store, sessions, ai_task, unused_by_agent, replay>>

\* Line 78: the LLM is invoked and the invocation raises.
ResolveInvokeRaises ==
    /\ apc = "resolve"
    /\ ~ShortCircuits(request.parameters, template)
    /\ calls' = Append(calls, "ainvoke")
    /\ AgentRaises("LlmError")
    /\ UNCHANGED <<request, session, response, template, parameter_values,
                   workflow_json, parameterized>>
    /\ UNCHANGED <<store, sessions, ai_task, unused_by_agent, replay>>

\* Lines 90-105: the response parses; its parameterValues are returned.
ResolveParsed ==
    /\ apc = "parse"
    /\ ParseReturns(response)
    /\ parameter_values' \in AgentMappings
    /\ apc' = "apply"
    /\ UNCHANGED <<request, session, calls, response, agent_error, template,
                   workflow_json, parameterized>>
    /\ UNCHANGED <<store, sessions, ai_task, unused_by_agent, replay>>

\* AfterParseFailure with the failure swallowed: an empty mapping is used
AfterParseFailureIgnored ==
    /\ apc' = "apply"
    /\ UNCHANGED agent_error

\* Lines 107-109: ValueError("Failed to extract parameters from task: ...")
\* leaves extract_parameters_from_task and the try block of execute_agent.
AfterParseFailure == AgentRaises("ResolutionError")

\* Lines 90-109: the response does not parse.
ResolveParseRaises ==
    /\ apc = "parse"
    /\ ~ParseReturns(response)
    /\ AfterParseFailure
    /\ UNCHANGED <<request, session, calls, response, template,
                   parameter_values, workflow_json, parameterized>>
    /\ UNCHANGED <<store, sessions, ai_task, unused_by_agent, replay>>

\* Lines 181-184: apply_parameters_to_workflow returns.
AgentApply ==
    /\ apc = "apply"
    /\ LET fields == WorkflowFields(request.parameters, template)
           sub == SubAllInJson(Dumps(fields), parameter_values)
       IN  /\ sub.ok
           /\ LoadsReturns(sub.bodies)
           /\ workflow_json' = sub.bodies
           /\ parameterized' = Loads(fields, sub.bodies)
    /\ apc' = "replay"
    /\ UNCHANGED <<request, session, calls, response, agent_error, template,
                   parameter_values>>
    /\ UNCHANGED <<store, sessions, ai_task, unused_by_agent, replay>>

\* Lines 181-184: apply_parameters_to_workflow raises re.error or
\* JSONDecodeError.
AgentApplyRaises ==
    /\ apc = "apply"
    /\ LET fields == WorkflowFields(request.parameters, template)
           sub == SubAllInJson(Dumps(fields), parameter_values)
       IN  /\ ~(sub.ok /\ LoadsReturns(sub.bodies))
           /\ AgentRaises(IF sub.ok THEN "JSONDecodeError" ELSE "re.error")
    /\ UNCHANGED <<request, session, calls, response, template,
                   parameter_values, workflow_json, parameterized>>
    /\ UNCHANGED <<store, sessions, ai_task, unused_by_agent, replay>>

\* ReplayCallRaises with the error swallowed: execute_agent goes on to persist
ReplayCallSwallowed ==
    /\ apc = "replay"
    /\ calls' = Append(calls, "replay_workflow")
    /\ agent_error' = "TypeError"
    /\ apc' = "persist"
    /\ UNCHANGED <<request, session, response, template, parameter_values,
                   workflow_json, parameterized>>
    /\ UNCHANGED <<store, sessions, ai_task, unused_by_agent, replay>>

\* Lines 187-191: replay_workflow is called with the keyword use_ai_fallback,
\* which it does not accept, and without provider, model and
\* original_task_prompt, which it requires: the call raises TypeError and no
\* statement of replay_workflow runs.
ReplayCallRaises ==
    /\ apc = "replay"
    /\ calls' = Append(calls, "replay_workflow")
    /\ AgentRaises("TypeError")
    /\ UNCHANGED <<request, session, response, template, parameter_values,
                   workflow_json, parameterized>>
    /\ UNCHANGED <<store, sessions, ai_task, unused_by_agent, replay>>

\* Lines 196-213: the engine runs and its result is taken.
EngineRuns ==
    /\ apc = "engine"
    /\ calls' = Append(calls, "engine_service.run")
    /\ apc' = "persist"
    /\ UNCHANGED <<request, session, response, agent_error, template,
                   parameter_values, workflow_json, parameterized>>
    /\ UNCHANGED <<store, sessions, ai_task, unused_by_agent, replay>>

\* Lines 196-206: get_llm, get_engine_service or the engine raises.
EngineRaises ==
    /\ apc = "engine"
    /\ calls' = Append(calls, "engine_service.run")
    /\ AgentRaises("EngineError")
    /\ UNCHANGED <<request, session, response, template, parameter_values,
                   workflow_json, parameterized>>
    /\ UNCHANGED <<store, sessions, ai_task, unused_by_agent, replay>>

\* Lines 216-257: the steps, the actions and the run are written; `if
\* request.webhook_url` decides whether the webhook is posted before the
\* return.
Persist ==
    /\ apc = "persist"
    /\ calls' = Append(calls, "update_task_run")
    /\ apc' = IF request.webhook_url THEN "webhook" ELSE "finally"
    /\ UNCHANGED <<request, session, response, agent_error, template,
                   parameter_values, workflow_json, parameterized>>
    /\ UNCHANGED <<store, sessions, ai_task, unused_by_agent, replay>>

\* Lines 216-239: create_run_step, create_run_action or update_task_run
\* raises.
PersistRaises ==
    /\ apc = "persist"
    /\ calls' = Append(calls, "update_task_run")
    /\ AgentRaises("PersistError")
    /\ UNCHANGED <<request, session, response, template, parameter_values,
                   workflow_json, parameterized>>
    /\ UNCHANGED <<store, sessions, ai_task, unused_by_agent, replay>>

\* Lines 258-266: post_webhook returns and execute_agent returns the response.
PostWebhook ==
    /\ apc = "webhook"
    /\ calls' = Append(calls, "post_webhook")
    /\ apc' = "finally"
    /\ UNCHANGED <<request, session, response, agent_error, template,
                   parameter_values, workflow_json, parameterized>>
    /\ UNCHANGED <<store, sessions, ai_task, unused_by_agent, replay>>

\* Lines 258-264: post_webhook raises (its handler's update_task_run, or the
\* dump of the response).
PostWebhookRaises ==
    /\ apc = "webhook"
    /\ calls' = Append(calls, "post_webhook")
    /\ AgentRaises("WebhookError")
    /\ UNCHANGED <<request, session, response, template, parameter_values,
                   workflow_json, parameterized>>
    /\ UNCHANGED <<store, sessions, ai_task, unused_by_agent, replay>>

\* Lines 268-270: the finally clause closes the session; execute_agent then
\* returns, or the pending exception goes on.
CloseSession ==
    /\ apc = "finally"
    /\ calls' = Append(calls, "close_session")
    /\ session' = "closed"
    /\ apc' = IF agent_error = NoneV THEN "returned" ELSE "raised"
    /\ UNCHANGED <<request, response, agent_error, template, parameter_values,
                   workflow_json, parameterized>>
    /\ UNCHANGED <<store, sessions, ai_task, unused_by_agent, replay>>

\* Line 270: close_session is called and raises.
CloseSessionRaises ==
    /\ apc = "finally"
    /\ calls' = Append(calls, "close_session")
    /\ agent_error' = "CloseError"
    /\ apc' = "raised"
    /\ UNCHANGED <<request, session, response, template, parameter_values,
                   workflow_json, parameterized>>
    /\ UNCHANGED <<store, sessions, ai_task, unused_by_agent, replay>>

NextAgent ==
    \/ CreateSession
    \/ CreateSessionRaises
    \/ ResolveShortCircuit
    \/ ResolveGetLlmRaises
    \/ ResolveInvoke
    \/ ResolveInvokeRaises
    \/ ResolveParsed
    \/ ResolveParseRaises
    \/ AgentApply
    \/ AgentApplyRaises
    \/ ReplayCallRaises
    \/ EngineRuns
    \/ EngineRaises
    \/ Persist
    \/ PersistRaises
    \/ PostWebhook
    \/ PostWebhookRaises
    \/ CloseSession
    \/ CloseSessionRaises

SpecAgent == AgentInit /\ [][NextAgent]_vars

\* ================================================== concurrent task runs
\* Task runs started through the API execute execute_agent at the same time
\* (api.py, background_tasks.add_task). Each run asks get_browser_service for
\* its service and creates a session with it; here the service is
\* LocalBrowserService. A browser is named by the run that launched it.

\* get_browser_service returns a new LocalBrowserService at every call
\* (BROWSER_PROVIDER defaults to local), so self.session of run r's service
\* is the browser run r launched.
ServiceSession(r) == r

SessionsInit ==
    /\ StoreIdle
    /\ AgentIdle
    /\ ReplayIdle
    /\ TemplatingIdle
    /\ rpc = [r \in Runs |-> "create_session"]
    /\ alive = {}
    /\ port_owner = NoBrowser
    /\ cdp = [r \in Runs |-> NoBrowser]
    /\ applied = {}

not_sessions == <<store, ai_task, agent, replay, templating>>

\* LocalBrowserService.create_session, lines 8-12: chromium is launched with
\* --remote-debugging-port=9222; the port goes to this browser unless a
\* running browser already listens on it.
LaunchBrowser(r) ==
    /\ rpc[r] = "create_session"
    /\ alive' = alive \cup {ServiceSession(r)}
    /\ port_owner' = IF port_owner = NoBrowser THEN ServiceSession(r) ELSE port_owner
    /\ rpc' = [rpc EXCEPT ![r] = "launched"]
    /\ UNCHANGED <<cdp, applied>>
    /\ UNCHANGED not_sessions

\* Lines 13-22: the cdp_url is read from http://localhost:9222/json/version,
\* which the browser that listens on the port answers.
ReadCdpUrl(r) ==
    /\ rpc[r] = "launched"
    /\ port_owner # NoBrowser
    /\ cdp' = [cdp EXCEPT ![r] = port_owner]
    /\ rpc' = [rpc EXCEPT ![r] = "connected"]
    /\ UNCHANGED <<alive, port_owner, applied>>
    /\ UNCHANGED not_sessions

\* Line 14: no browser listens on the port; the request raises and
\* create_session raises with it.
ReadCdpUrlRaises(r) ==
    /\ rpc[r] = "launched"
    /\ port_owner = NoBrowser
    /\ rpc' = [rpc EXCEPT ![r] = "raised"]
    /\ UNCHANGED <<alive, port_owner, cdp, applied>>
    /\ UNCHANGED not_sessions

\* The run's engine or replay drives the browser its cdp_url leads to.
DriveSession(r) ==
    /\ rpc[r] = "connected"
    /\ cdp[r] \in alive
    /\ applied' = applied \cup {<<r, cdp[r]>>}
    /\ UNCHANGED <<rpc, alive, port_owner, cdp>>
    /\ UNCHANGED not_sessions

\* The browser the run's cdp_url leads to is gone: the run's operations fail.
SessionLost(r) ==
    /\ rpc[r] = "connected"
    /\ cdp[r] \notin alive
    /\ rpc' = [rpc EXCEPT ![r] = "session_lost"]
    /\ UNCHANGED <<alive, port_owner, cdp, applied>>
    /\ UNCHANGED not_sessions

\* execute_agent line 270 and LocalBrowserService.close_session: the browser
\* held by the run's service is closed; its port is free again.
CloseRunSession(r) ==
    /\ rpc[r] \in {"connected", "session_lost"}
    /\ alive' = alive \ {ServiceSession(r)}
    /\ port_owner' = IF port_owner = ServiceSession(r) THEN NoBrowser ELSE port_owner
    /\ rpc' = [rpc EXCEPT ![r] = "closed"]
    /\ UNCHANGED <<cdp, applied>>
    /\ UNCHANGED not_sessions

NextSessions ==
    \E r \in Runs :
        \/ LaunchBrowser(r)
        \/ ReadCdpUrl(r)
        \/ ReadCdpUrlRaises(r)
        \/ DriveSession(r)
        \/ SessionLost(r)
        \/ CloseRunSession(r)

SpecSessions == SessionsInit /\ [][NextSessions]_vars

\* ------------------------------------ the sub-task text, as a function
\* _build_ai_task_with_context applied to bounded inputs: a history of up to
\* MaxContext items, one of which has any sequence of up to MaxItemActions
\* successful and failed actions.
MaxContext == 4
MaxItemActions == 5

\* The name of the j-th recorded action of a history item.
RecordedName(j) == CatalogActions[((j - 1) % Len(CatalogActions)) + 1]

\* A history item's actions, from the success flag of each.
RecordedActions(flags) ==
    [j \in DOMAIN flags |->
        IF flags[j] THEN SuccessRecord(RecordedName(j))
                    ELSE FailedRecord(RecordedName(j), DispatchError)]

FlagLists == UNION {[1..n -> BOOLEAN] : n \in 0..MaxItemActions}

\* The histories handed over as workflow_context.
Contexts ==
    {<<>>} \cup
    UNION {{[i \in 1..n |->
                HistoryItem(StepDescription(i),
                            RecordedActions(IF i = k THEN flags
                                                     ELSE <<TRUE, FALSE>>))] :
              k \in 1..n, flags \in FlagLists} :
           n \in 1..MaxContext}

\* execute_step_with_ai_fallback is entered (line 59) for the step that
\* follows the history, after one of its cached actions has failed.
DigestInit ==
    /\ SessionsIdle
    /\ StoreIdle
    /\ AgentIdle
    /\ TemplatingIdle
    /\ history \in Contexts
    /\ workflow = <<[description |-> StepDescription(Len(history) + 1),
                     actions |-> <<"click">>]>>
    /\ failed_action \in {FailedRecord("click", DispatchError),
                          FailedRecord("click", WaitError)}
    /\ ai_task = NoTask
    /\ pc = "build_task"
    /\ step_index = 1
    /\ action_pos = 2
    /\ step_actions = <<failed_action>>
    /\ action_failed = TRUE
    /\ screenshots = <<>>
    /\ final_result = NoneV
    /\ raised = NoError
    /\ attempt = 0
    /\ ai_actions = <<>>
    /\ ai_success = FALSE
    /\ dispatched = {}
    /\ fallback_calls = <<>>
    /\ failed_steps = {}
    /\ engine_log = <<>>
    /\ page = NoPage

\* Lines 59-64: the sub-task text is built.
BuildTask ==
    /\ pc = "build_task"
    /\ ai_task' = BuildAiTaskWithContext(CurrentStep.description, failed_action,
                                           history, ORIGINAL_TASK_PROMPT)
    /\ pc' = "task_built"
    /\ UNCHANGED <<store, sessions, agent, templating, workflow>>
    /\ UNCHANGED step_locals
    /\ UNCHANGED fallback_vars
    /\ UNCHANGED observations
    /\ UNCHANGED result_vars
    /\ UNCHANGED engine_log

NextDigest == BuildTask

SpecDigest == DigestInit /\ [][NextDigest]_vars

\* ------------------------------------------ set_run_as_cached_workflow
\* WorkflowTemplate.to_dict
WorkflowDict(params, fields) == [parameters |-> params, steps |-> fields]

\* A row of the tasks table: the two columns the endpoint writes.
TaskRow(cached_workflow, use_cached_workflow) ==
    [cached_workflow |-> cached_workflow,
     use_cached_workflow |-> use_cached_workflow]

\* The rows the task can have before the endpoint is called: no cached
\* workflow, or one saved earlier, with the flag set or not.
StoredRows ==
    {TaskRow(w, u) :
        w \in {NoWorkflow, WorkflowDict(<<>>, <<Field("description", <<"y">>)>>)},
        u \in BOOLEAN}

\* The steps of the runs the endpoint is called for.
SavedRecordings ==
    {r \in Recordings : /\ r[3].text \in {<<"x">>, <<"x", "y">>}
                        /\ r[Len(r)] = Field("name", <<"x">>)}

\* The endpoint is called with a run id.
SaveInit ==
    /\ SessionsIdle
    /\ AgentIdle
    /\ ReplayIdle
    /\ run_row \in {NoneV, "run"}
    /\ task_row \in {NoRow} \cup StoredRows
    /\ spc = "get_run"
    /\ steps \in (IF run_row = NoneV THEN {<<>>} ELSE SavedRecordings)
    /\ parameters = <<>>
    /\ templated_steps = <<>>
    /\ template = <<>>
    /\ parameter_values = <<>>
    /\ workflow_json = <<>>
    /\ parameterized = <<>>
    /\ tpc = "idle"
    /\ terror = NoneV

not_store == <<sessions, ai_task, agent, replay, template, parameter_values,
               workflow_json, parameterized, tpc>>

\* Lines 300-303: get_task_run_with_steps, and HTTPException(404) when the
\* run is missing.
GetRun ==
    /\ spc = "get_run"
    /\ IF run_row = NoneV
       THEN spc' = "raised" /\ terror' = "HTTP404"
       ELSE spc' = "get_task" /\ UNCHANGED terror
    /\ UNCHANGED <<run_row, task_row, steps, parameters, templated_steps>>
    /\ UNCHANGED not_store

\* Lines 305-308: get_task, and HTTPException(404) when the task is missing.
GetTask ==
    /\ spc = "get_task"
    /\ IF task_row = NoRow
       THEN spc' = "raised" /\ terror' = "HTTP404"
       ELSE spc' = "build" /\ UNCHANGED terror
    /\ UNCHANGED <<run_row, task_row, steps, parameters, templated_steps>>
    /\ UNCHANGED not_store

\* Lines 313-319: build_workflow_from_run returns the template of the
\* parameters its LLM call found.
SaveBuilds ==
    /\ spc = "build"
    /\ \E ps \in ParameterLists :
          /\ parameters' = ps
          /\ templated_steps' = TemplateAll(CleanSteps(steps), ps)
    /\ spc' = "update"
    /\ UNCHANGED <<run_row, task_row, steps, terror>>
    /\ UNCHANGED not_store

\* Lines 316-319 and 337-341: build_workflow_from_run raises (the LLM call,
\* or ValueError of _parse_json_response); the handler answers 500.
SaveBuildRaises ==
    /\ spc = "build"
    /\ spc' = "raised"
    /\ terror' = "HTTP500"
    /\ UNCHANGED <<run_row, task_row, steps, parameters, templated_steps>>
    /\ UNCHANGED not_store

\* UpdatedRow writing the workflow and leaving the flag as it was
UpdatedRowWorkflowOnly(row, data) ==
    TaskRow(data.cached_workflow, row.use_cached_workflow)

\* task_repository.update_task, lines 161-165: both keys are set on the row
\* and committed together.
UpdatedRow(row, data) == TaskRow(data.cached_workflow, data.use_cached_workflow)

\* Lines 321-334: update_task commits the two columns, the endpoint returns.
SaveUpdates ==
    /\ spc = "update"
    /\ task_row' = UpdatedRow(task_row,
                              TaskRow(WorkflowDict(parameters, templated_steps), TRUE))
    /\ spc' = "returned"
    /\ UNCHANGED <<run_row, steps, parameters, templated_steps, terror>>
    /\ UNCHANGED not_store

\* Lines 323-326 and 337-341: db.commit of update_task raises; the database
\* session is closed without a commit and the handler answers 500.
SaveUpdateRaises ==
    /\ spc = "update"
    /\ spc' = "raised"
    /\ terror' = "HTTP500"
    /\ UNCHANGED <<run_row, task_row, steps, parameters, templated_steps>>
    /\ UNCHANGED not_store

NextSave ==
    \/ GetRun
    \/ GetTask
    \/ SaveBuilds
    \/ SaveBuildRaises
    \/ SaveUpdates
    \/ SaveUpdateRaises

SpecSave == SaveInit /\ [][NextSave]_vars

\* ----------------------------------- one template, several instantiations
\* A run is recorded, its template is built and stored, and the stored
\* template is instantiated again and again with resolved values.
ReuseInit ==
    /\ SessionsIdle
    /\ StoreIdle
    /\ AgentIdle
    /\ ReplayIdle
    /\ steps \in SavedRecordings
    /\ parameters \in ParameterLists
    /\ templated_steps = <<>>
    /\ template = <<>>
    /\ parameter_values = <<>>
    /\ workflow_json = <<>>
    /\ parameterized = <<>>
    /\ tpc = "build"
    /\ terror = NoneV

\* execute_agent calls apply_parameters_to_workflow on request.cached_workflow
\* for the next run of the task (agent_service.py lines 181-184), with the
\* values resolved for that run.
InstantiateAgain ==
    /\ tpc \in {"returned", "raised"}
    /\ \E m \in AgentMappings :
          /\ m # parameter_values
          /\ parameter_values' = m
    /\ tpc' = "apply"
    /\ workflow_json' = <<>>
    /\ parameterized' = <<>>
    /\ terror' = NoneV
    /\ UNCHANGED <<steps, parameters, templated_steps, template>>
    /\ UNCHANGED <<store, sessions, ai_task, agent, replay>>

NextReuse ==
    \/ BuildWorkflowFromRun
    \/ ReplayWithExamples
    \/ ApplyReturns
    \/ ApplySubRaises
    \/ ApplyLoadsRaises
    \/ InstantiateAgain

SpecReuse == ReuseInit /\ [][NextReuse]_vars

\* ======================================================== properties
Range(f) == {f[i] : i \in DOMAIN f}

\* The positions of the current step that were handed to execute_action.
DispatchedHere == {d[2] : d \in {e \in dispatched : e[1] = step_index}}

\* The history item of step s was produced by a successful fallback.
RescuedStep(s) ==
    /\ s \in Range(fallback_calls)
    /\ s <= Len(history)
    /\ ~(raised.kind = "fallback_exhausted" /\ s = step_index)

\* C1: when the first failing action of a step is at position k, the step's
\* recorded action list at the moment the fallback is triggered has exactly k
\* entries, k-1 success records followed by the failed record, and the
\* actions after k are never dispatched.
C1_RecordedUpToFailure ==
    action_failed =>
        LET k == action_pos - 1
        IN  /\ Len(step_actions) = k
            /\ \A i \in 1..(k - 1) :
                   step_actions[i] = SuccessRecord(CurrentActions[i])
            /\ step_actions[k] = failed_action
            /\ ~failed_action.success
            /\ \A j \in (k + 1)..Len(CurrentActions) : j \notin DispatchedHere

\* C2 as stated: at most 3 engine invocations per call; when every engine
\* invocation reports an unsuccessful result, exactly 3 invocations occur and
\* the call returns ([], False).
C2_ExactlyThreeInvocations ==
    /\ Len(engine_log) <= 3
    /\ (pc = "fallback_returned"
          /\ \A i \in DOMAIN engine_log : engine_log[i] = "unsuccessful")
        => (Len(engine_log) = 3 /\ ai_actions = <<>> /\ ~ai_success)

\* C2 amended: at most 3 engine invocations per call; when every attempt
\* reaches the engine and every invocation reports an unsuccessful result,
\* exactly 3 invocations occur and the call returns ([], False).
C2_ThreeInvocationsWhenEngineReached ==
    /\ Len(engine_log) <= 3
    /\ (pc = "fallback_returned"
          /\ Len(engine_log) = attempt
          /\ \A i \in DOMAIN engine_log : engine_log[i] = "unsuccessful")
        => (Len(engine_log) = 3 /\ ai_actions = <<>> /\ ~ai_success)

C2_Witness ==
    /\ pc = "fallback_returned"
    /\ engine_log = <<"unsuccessful", "unsuccessful", "unsuccessful">>

\* C3: when the fallback returns success, every returned action is marked
\* executed_by_ai, carries a reason naming the failed cached action and its
\* error, and carries the 1-based index of the attempt that succeeded.
C3_ReturnedActionsMarked ==
    (pc = "fallback_returned" /\ ai_success) =>
        /\ attempt \in 1..3
        /\ engine_log[Len(engine_log)] = "successful"
        /\ Len(engine_log) <= attempt
        /\ failed_action.name = CurrentActions[action_pos - 1]
        /\ failed_action.error \in {DispatchError, WaitError}
        /\ \A i \in DOMAIN ai_actions :
              /\ ai_actions[i].executed_by_ai
              /\ ai_actions[i].fallback_reason.action = failed_action.name
              /\ ai_actions[i].fallback_reason.error = failed_action.error
              /\ ai_actions[i].fallback_attempt = attempt

C3_Witness ==
    /\ pc = "fallback_returned"
    /\ ai_success
    /\ attempt = 2
    /\ Len(ai_actions) = 3

\* C4: when the fallback of a failed step succeeds, the history item appended
\* for the step holds exactly the returned agent-generated actions: no failed
\* cached action and no cached action that succeeded before the failure.
C4_OnlyGeneratedActions ==
    /\ [](\A s \in 1..Len(history) :
            RescuedStep(s) =>
               \A i \in DOMAIN history[s].actions :
                  /\ history[s].actions[i].executed_by_ai
                  /\ history[s].actions[i].name \in Range(AiNames))
    /\ [][(pc = "fallback_returned" /\ ai_success /\ pc' # "raised")
             => history' = Append(history,
                                  HistoryItem(CurrentStep.description, ai_actions))]_vars

C4_Witness ==
    /\ Len(history) >= 1
    /\ RescuedStep(1)
    /\ <<1, 2>> \in dispatched
    /\ Len(history[1].actions) = 3

\* C5: when the fallback of step i returns failure, replay_workflow raises,
\* no cached action and no fallback attempt of a later step is ever
\* dispatched, and the fallback-exhausted error is raised only after 3
\* failed attempts.
C5_ExhaustionIsFatal ==
    /\ []((pc = "fallback_returned" /\ ~ai_success) => attempt = 3)
    /\ [](raised.kind = "fallback_exhausted" =>
            /\ attempt = 3
            /\ ~ai_success
            /\ raised.step = CurrentStep.description
            /\ \A d \in dispatched : d[1] <= step_index
            /\ \A s \in Range(fallback_calls) : s <= step_index)
    /\ [][(pc = "fallback_returned" /\ ~ai_success) => pc' = "raised"]_vars
    /\ [][pc # "raised"]_vars

C5_Witness ==
    /\ raised.kind = "fallback_exhausted"
    /\ step_index = 1
    /\ Len(workflow) = 2
    /\ Len(workflow[2].actions) > 0

C7_FallbackOncePerFailedStep ==
    /\ \A i, j \in DOMAIN fallback_calls :
          fallback_calls[i] = fallback_calls[j] => i = j
    /\ Range(fallback_calls) \subseteq failed_steps
    /\ \A s \in failed_steps \ Range(fallback_calls) :
          s = step_index /\ pc = "actions" /\ action_failed
    /\ failed_steps = {} => (engine_log = <<>> /\ attempt = 0)
    /\ \A s \in 1..Len(history) :
          s \notin failed_steps =>
             \A i \in DOMAIN history[s].actions : history[s].actions[i].success

C7_Witness ==
    /\ pc = "returned"
    /\ Len(workflow) = 2
    /\ fallback_calls = <<2>>
    /\ Len(workflow[1].actions) = 3

\* C10: the result replay_workflow returns is the page text when that is not
\* empty and the page address when the text is empty.
C10_FinalResult ==
    pc = "returned" =>
        final_result = (IF page.text # "" THEN page.text ELSE page.url)

C10_Witness ==
    /\ pc = "returned"
    /\ page.text = ""
    /\ final_result = page.url

\* The names that have an entry in the resolved value mapping.
ResolvedNames == {parameter_values[i].name : i \in DOMAIN parameter_values}

\* C8: when the value mapping has an entry for every placeholder the
\* Resolver's scan finds in the template, the workflow that
\* apply_parameters_to_workflow returns holds nothing that the scan
\* recognises as a placeholder.
C8_NoPlaceholderLeft ==
    (tpc = "returned" /\ TemplateVarsOf(template) \subseteq ResolvedNames)
        => TemplateVarsOf(parameterized) = {}

\* No example value is a substring of another one or of an inserted
\* placeholder.
NoCollision(params) ==
    /\ \A i, j \in DOMAIN params :
          i # j => ~Contains(params[j].example_value, params[i].example_value)
    /\ \A i, j \in DOMAIN params :
          ~Contains(TemplateVar(params[j].name), params[i].example_value)

\* C9: for a recorded run whose example values do not collide, instantiating
\* the built template with the example values returns the recorded steps as
\* they are after the templater's cleaning.
C9_RoundTrip ==
    (tpc \in {"returned", "raised"} /\ steps # <<>> /\ NoCollision(parameters))
        => (tpc = "returned" /\ parameterized = CleanSteps(steps))

\* The number of calls of one collaborator that execute_agent has made.
Count(seq, x) == Cardinality({i \in DOMAIN seq : seq[i] = x})

\* extract_parameters_from_task has been called and has been left.
ResolverLeft ==
    /\ request.use_cached_workflow
    /\ apc \in {"parse", "apply", "replay", "finally"}

\* The serialised cached workflow holds a placeholder occurrence.
HasPlaceholder == TemplateVarsOf(WorkflowFields(request.parameters, template)) # {}

\* C11 as stated: no LLM call and the empty mapping when the serialised
\* template holds no placeholder occurrence, exactly one LLM call when it
\* holds one.
C11_OneCallIffPlaceholder ==
    ResolverLeft =>
        /\ ~HasPlaceholder =>
              (Count(calls, "ainvoke") = 0 /\ parameter_values = <<>>)
        /\ HasPlaceholder => Count(calls, "ainvoke") = 1

\* C11 amended: no LLM call and the empty mapping when the workflow declares
\* no parameter or its serialisation holds no placeholder occurrence;
\* otherwise never more than one LLM call, and exactly one unless building
\* the LLM client raised.
C11_OneCallWhenDeclaredAndPlaceholder ==
    /\ Count(calls, "ainvoke") <= 1
    /\ ResolverLeft =>
          IF request.parameters = <<>> \/ ~HasPlaceholder
          THEN Count(calls, "ainvoke") = 0 /\ parameter_values = <<>>
          ELSE agent_error # "LlmSetupError" => Count(calls, "ainvoke") = 1

C11_Witness ==
    /\ apc = "apply"
    /\ request.parameters # <<>>
    /\ HasPlaceholder
    /\ Count(calls, "ainvoke") = 1
    /\ parameter_values # <<>>

\* The Resolver's LLM has answered and the answer did not parse.
ParseFailed ==
    /\ response # <<>>
    /\ ~ParseReturns(response)
    /\ apc # "parse"

\* C12: when the Resolver's LLM response cannot be parsed, execute_agent ends
\* with an error, and neither replay_workflow has been called nor any action
\* of the workflow dispatched.
C12_ParseFailureAbortsBeforeReplay ==
    ParseFailed =>
        /\ apc \in {"finally", "raised"}
        /\ agent_error # NoneV
        /\ Count(calls, "replay_workflow") = 0
        /\ dispatched = {}
        /\ pc = "idle"

C12_Witness ==
    /\ ParseFailed
    /\ apc = "raised"
    /\ agent_error = "ResolutionError"
    /\ Count(calls, "ainvoke") = 1

\* execute_agent has returned or raised.
AgentExited == apc \in {"returned", "raised"}

\* C13: once create_session has returned a session, close_session is invoked
\* on every exit path of execute_agent, and once.
C13_SessionClosedOnEveryExit ==
    (AgentExited /\ session # "none") =>
        /\ Count(calls, "close_session") = 1
        /\ calls[Len(calls)] = "close_session"

C13_Witness ==
    /\ apc = "raised"
    /\ agent_error = "WebhookError"
    /\ session = "closed"
    /\ Count(calls, "post_webhook") = 1
    /\ Count(calls, "close_session") = 1

\* C14: every replay ends either with a complete history (one item per
\* workflow step) and a final result, or with a fatal error whose message
\* names the failing step's description and the last attempted action.
C14_CompleteHistoryOrNamedFailure ==
    /\ pc = "returned" =>
          /\ Len(history) = Len(workflow)
          /\ final_result # NoneV
    /\ pc = "raised" =>
          /\ raised.kind = "fallback_exhausted"
          /\ raised.step = CurrentStep.description
          /\ "action" \in DOMAIN raised
          /\ raised.action = failed_action.name

\* A cached action's dispatch has just ended with an error.
DispatchFailedNow ==
    /\ pc = "actions"
    /\ ~action_failed
    /\ action_failed'

\* C15: an error raised while dispatching a cached action is caught inside
\* replay_workflow and recorded as a failed action (success false, error text
\* set); it does not leave replay_workflow, it moves the step to the failed
\* state, and replay_workflow raises after it only once the fallback has been
\* run for that step.
C15_DispatchErrorCaughtAndRecorded ==
    [][/\ DispatchFailedNow =>
            /\ pc' = "actions"
            /\ raised' = NoError
            /\ step_index' = step_index
            /\ step_actions' # <<>>
            /\ LET record == step_actions'[Len(step_actions')]
               IN  /\ record.name = CurrentActions[action_pos]
                   /\ record.success = FALSE
                   /\ record.error # NoneV
                   /\ failed_action' = record
            /\ ~LoopContinues(action_failed', action_pos', Len(CurrentActions))
       /\ (pc' = "raised" /\ action_failed') =>
            Count(fallback_calls', step_index') = 1]_vars

C15_Witness ==
    /\ pc = "actions"
    /\ action_failed
    /\ raised = NoError
    /\ step_actions # <<>>
    /\ step_actions[Len(step_actions)].success = FALSE
    /\ step_actions[Len(step_actions)].error = DispatchError
    /\ Len(step_actions) = 2

\* C16: every operation execute_action dispatches carries a bounded timeout:
\* an operation that never completes becomes a failed action record and the
\* replay never stays waiting on it.
C16_NoDispatchHangs == pc # "hung"

\* C17: the parser tries the fenced-block content first and then the raw text,
\* and fails only if neither parses: whenever the whole response text is valid
\* JSON, parsing succeeds, even if the text holds a pair of code-fence
\* delimiters whose content is not valid JSON.
C17_RawJsonAlwaysParses ==
    (tpc \in {"returned", "raised"} /\ IsJson(Strip(response))) =>
        tpc = "returned"

\* C18: build_workflow_from_run replaces every substring occurrence of a
\* parameter's example value by its placeholder in every string field of the
\* step tree, the strings inside an action's params included, also where the
\* example value is a proper substring of the string. Stated for a parameter
\* list of one parameter.
C18_EverySubstringReplaced ==
    (tpc = "built" /\ Len(parameters) = 1 /\ parameters[1].example_value # <<>>)
        => \A i \in DOMAIN templated_steps :
              templated_steps[i].text =
                  ReplaceFrom(CleanSteps(steps)[i].text, 1,
                              parameters[1].example_value,
                              TemplateVar(parameters[1].name))

\* The names declared by a parameter list.
DeclaredNames(params) == {params[j].name : j \in DOMAIN params}

\* C19: in every template build_workflow_from_run produces, each occurrence
\* of the placeholder syntax in the templated steps names a parameter declared
\* in the template's parameter list.
C19_PlaceholdersAreDeclared ==
    tpc = "built" =>
        \A i \in DOMAIN templated_steps :
            \A name \in {NameA, NameB} :
                Contains(templated_steps[i].text, TemplateVar(name))
                    => name \in DeclaredNames(parameters)

\* C20: in every template build_workflow_from_run produces, the parameter
\* names are pairwise distinct, whatever list the extraction LLM returned.
C20_ParameterNamesDistinct ==
    tpc = "built" =>
        \A i, j \in DOMAIN parameters :
            parameters[i].name = parameters[j].name => i = j

\* C21: two task runs executing at the same time each drive a browser session
\* of their own: no action of one run reaches the session of the other, and
\* closing one run's session never closes or invalidates the other's.
C21_IndependentSessions ==
    /\ \A r \in Runs : cdp[r] \in {NoBrowser, ServiceSession(r)}
    /\ \A a \in applied : a[2] = ServiceSession(a[1])
    /\ \A r \in Runs : rpc[r] = "connected" => cdp[r] \in alive

\* C22: within one replay the step history is append-only: a step of the
\* program leaves the history as it is or appends one item; the items already
\* in it stay as they are and where they are, also across the fallback
\* orchestrator's call, and the item appended is the one of the current step,
\* at the step's index.
C22_HistoryAppendOnly ==
    [][/\ Len(history') \in {Len(history), Len(history) + 1}
       /\ SubSeq(history', 1, Len(history)) = history
       /\ Len(history') = Len(history) + 1 =>
            /\ Len(history') = step_index
            /\ history'[step_index].description = workflow[step_index].description
       /\ pc = "fallback" => history' = history]_vars

C22_Witness ==
    /\ pc = "returned"
    /\ Len(history) = 2
    /\ fallback_calls = <<1>>
    /\ history[1].description = workflow[1].description
    /\ history[2].description = workflow[2].description

\* C23: with use_cached_workflow set and a cached workflow, execute_agent
\* calls the replay entry point with the arguments it takes, so the replay
\* starts: the call does not fail before the first step.
C23_ReplayCallStarts ==
    (request.use_cached_workflow /\ Count(calls, "replay_workflow") = 1)
        => agent_error # "TypeError"

\* C24: replay is strictly sequential. A step of the program dispatches at
\* most one cached action, the one after those of the current step already
\* dispatched, and only once the history holds the items of all earlier
\* steps; it never both dispatches an action and invokes the engine; the
\* engine is invoked only inside the orchestrator's call; the step index
\* stays or goes up by one.
C24_StrictlySequential ==
    [][/\ dispatched' # dispatched =>
            /\ pc = "actions"
            /\ attempt = 0
            /\ dispatched' = dispatched \cup {<<step_index, action_pos>>}
            /\ <<step_index, action_pos>> \notin dispatched
            /\ \A p \in 1..(action_pos - 1) : <<step_index, p>> \in dispatched
            /\ \A d \in dispatched : d[1] <= step_index
            /\ Len(history) = step_index - 1
            /\ engine_log' = engine_log
       /\ Len(engine_log') > Len(engine_log) =>
            /\ pc = "fallback"
            /\ Len(engine_log') = Len(engine_log) + 1
            /\ dispatched' = dispatched
       /\ step_index' \in {step_index, step_index + 1}
       /\ step_index' = step_index + 1 => Len(history') = step_index]_vars

C24_Witness ==
    /\ pc = "actions"
    /\ step_index = 2
    /\ Len(history) = 1
    /\ dispatched = {<<1, 1>>, <<1, 2>>, <<2, 1>>, <<2, 2>>}

\* An attempt of the orchestrator has just ended with an exception: before
\* the engine was invoked, or in the engine.
AttemptRaisedNow ==
    /\ pc = "fallback"
    /\ ~ai_success'
    /\ \/ engine_log' = engine_log
       \/ /\ Len(engine_log') = Len(engine_log) + 1
          /\ engine_log'[Len(engine_log')] = "raised"

\* C25: an exception raised during a fallback attempt is caught inside
\* execute_step_with_ai_fallback: nothing is raised to the caller, the attempt
\* counts as one of the 3, and the next attempt runs with the same sub-task.
C25_AttemptExceptionCaughtAndCounted ==
    [][AttemptRaisedNow =>
        /\ raised' = NoError
        /\ attempt \in 1..MAX_AI_FALLBACK_RETRIES
        /\ ai_task = BuildAiTaskWithContext(workflow[step_index].description,
                                            failed_action, history,
                                            ORIGINAL_TASK_PROMPT)
        /\ ai_task' = ai_task
        /\ IF attempt < MAX_AI_FALLBACK_RETRIES
           THEN /\ pc' = "fallback"
                /\ attempt' = attempt + 1
           ELSE /\ pc' = "fallback_returned"
                /\ ai_actions' = <<>>]_vars

C25_Witness ==
    /\ pc = "fallback"
    /\ attempt = MAX_AI_FALLBACK_RETRIES
    /\ engine_log = <<"raised", "raised">>
    /\ raised = NoError
    /\ ai_task # NoTask


\* An engine invocation of the orchestrator call in progress has just
\* completed (line 89 returned or raised).
EngineInvokedNow == Len(engine_log') = Len(engine_log) + 1

\* C26: fallback attempts for a step are sequential and stop at the first
\* success: an attempt starts only after the one before it has completed
\* unsuccessfully or raised, each attempt invokes the engine at most once, and
\* no engine invocation follows one whose result is successful.
C26_SequentialStopAtFirstSuccess ==
    [][/\ EngineInvokedNow =>
            /\ pc = "fallback"
            /\ Len(engine_log) < attempt
            /\ \A i \in DOMAIN engine_log : engine_log[i] # "successful"
            /\ engine_log'[Len(engine_log')] = "successful" =>
                    (pc' = "fallback_returned" /\ ai_success' /\ attempt' = attempt)
       /\ (pc = "fallback" /\ attempt' # attempt) =>
            /\ attempt' = attempt + 1
            /\ ~ai_success'
            /\ \/ engine_log' = engine_log
               \/ /\ EngineInvokedNow
                  /\ engine_log'[Len(engine_log')] \in {"unsuccessful", "raised"}]_vars

C26_Witness ==
    /\ pc = "fallback_returned"
    /\ ai_success
    /\ attempt = 2
    /\ engine_log = <<"unsuccessful", "successful">>


\* The positions of the successful actions of a history item.
SuccessfulPositions(item) ==
    {j \in DOMAIN item.actions : item.actions[j].success}

\* The history item the i-th entry of a digest of n entries stands for.
DigestedItem(i, n) == history[Len(history) - n + i]

\* C27: the sub-task text holds the original prompt, the failed action's name
\* and error text, the current step description, and a digest of at most the
\* last 3 history items, each with at most its first 3 successful action
\* names, in order; no older item and no unsuccessful action is named.
C27_TaskTextContents ==
    pc = "task_built" =>
        LET digest == ai_task.context_summary
            n == Len(digest)
        IN  /\ ai_task.original_task_prompt = ORIGINAL_TASK_PROMPT
            /\ ai_task.failed_name = failed_action.name
            /\ ai_task.failed_error = failed_action.error
            /\ ai_task.step_description = workflow[step_index].description
            /\ n = (IF Len(history) < 3 THEN Len(history) ELSE 3)
            /\ \A i \in 1..n :
                  LET item == DigestedItem(i, n)
                      good == SuccessfulPositions(item)
                      names == digest[i].action_names
                  IN  /\ digest[i].description = item.description
                      /\ Len(names) = (IF Cardinality(good) < 3
                                       THEN Cardinality(good) ELSE 3)
                      /\ \A m \in 1..Len(names) :
                            \E p \in good :
                               /\ Cardinality({q \in good : q < p}) = m - 1
                               /\ names[m] = item.actions[p].name
                      /\ (\A a, b \in DOMAIN item.actions :
                             item.actions[a].name = item.actions[b].name => a = b)
                         => \A j \in DOMAIN item.actions :
                               ~item.actions[j].success =>
                                  \A m \in 1..Len(names) :
                                      names[m] # item.actions[j].name

C27_Witness ==
    /\ pc = "task_built"
    /\ Len(history) = 4
    /\ Len(ai_task.context_summary) = 3
    /\ \E i \in 2..4 :
          /\ Cardinality(SuccessfulPositions(history[i])) = 4
          /\ ~history[i].actions[2].success
          /\ ai_task.context_summary[i - 1].action_names
                = <<"navigate", "extract", "input">>


\* replay_workflow has just dispatched a cached action that execute_action
\* only logs: an unsupported operation or an unknown name.
NoOpDispatchedNow ==
    /\ pc = "actions"
    /\ <<step_index, action_pos>> \in dispatched' \ dispatched
    /\ ~PerformsBrowserOp(CurrentActions[action_pos])

\* C28: an action whose name is unknown or is one of the unsupported
\* operations performs no browser operation, is recorded as a successful
\* action, and never makes the step fail or the fallback start.
C28_NoOpNeverFailsTheStep ==
    [][NoOpDispatchedNow =>
        /\ pc' = "actions"
        /\ step_actions' = Append(step_actions,
                                  SuccessRecord(CurrentActions[action_pos]))
        /\ ~action_failed'
        /\ failed_action' = failed_action
        /\ failed_steps' = failed_steps]_vars


\* The structural tree walk the serialised substitution is compared with: in
\* one string field, each placeholder of the mapping, taken in the mapping's
\* order, is replaced by its resolved literal.
RECURSIVE WalkText(_, _)
WalkText(text, values) ==
    IF values = <<>> THEN text
    ELSE WalkText(ReplaceFrom(text, 1, TemplateVar(Head(values).name),
                              Head(values).value),
                  Tail(values))

\* The walk over every string field of the step tree.
StructuralWalk(fields, values) ==
    [i \in DOMAIN fields |-> Field(fields[i].kind, WalkText(fields[i].text, values))]

\* C29: apply_parameters_to_workflow (serialize, replace, deserialize) is
\* equivalent to the structural tree walk: for every template and every
\* resolved value it returns, and returns the workflow the walk yields.
C29_EquivalentToStructuralWalk ==
    tpc \in {"returned", "raised"} =>
        /\ tpc = "returned"
        /\ parameterized = StructuralWalk(template, parameter_values)

\* The serialised substitution and the walk agree whenever no resolved value
\* holds a double quote or a backslash.
AgreesOnPlainValues ==
    (/\ tpc \in {"returned", "raised"}
     /\ \A i \in DOMAIN parameter_values :
           \A j \in DOMAIN parameter_values[i].value :
              parameter_values[i].value[j] \notin {DQUOTE, BACKSLASH})
        => /\ tpc = "returned"
           /\ parameterized = StructuralWalk(template, parameter_values)


\* The names the resolved mapping has no entry for.
UnresolvedNames == {NameA, NameB} \ ResolvedNames

\* text.split(pat): the parts of the text around the occurrences of pat.
RECURSIVE SplitOn(_, _)
SplitOn(text, pat) ==
    LET at == {i \in 1..Len(text) : StartsWithAt(text, i, pat)}
    IN  IF at = {} THEN <<text>>
        ELSE LET i == CHOOSE j \in at : \A k \in at : j <= k
             IN  <<SubSeq(text, 1, i - 1)>>
                 \o SplitOn(SubSeq(text, i + Len(pat), Len(text)), pat)

\* pat.join(parts)
RECURSIVE JoinWith(_, _)
JoinWith(parts, pat) ==
    IF Len(parts) = 1 THEN parts[1]
    ELSE parts[1] \o pat \o JoinWith(Tail(parts), pat)

\* What apply_parameters_to_workflow makes of a string field that holds the
\* given text.
AppliedText(text, values) ==
    JsonUnescape(SubAllInJson(<<JsonEscape(text)>>, values).bodies[1]).text

\* The field was changed around the placeholders of the name only: each
\* placeholder is where it was, and the text between two of them is what the
\* substitution makes of that text alone.
LeftInPlace(before, after, name, values) ==
    LET parts == SplitOn(before, TemplateVar(name))
    IN  after = JoinWith([k \in DOMAIN parts |-> AppliedText(parts[k], values)],
                         TemplateVar(name))

\* apply_parameters_to_workflow has returned a workflow that holds a
\* placeholder without a resolved value.
UnresolvedReturned ==
    /\ parameterized # <<>>
    /\ \E n \in UnresolvedNames, i \in DOMAIN parameterized :
          Contains(WorkflowFields(request.parameters, template)[i].text,
                   TemplateVar(n))

\* C30: a placeholder whose name has no entry in the resolved mapping is left
\* byte for byte unchanged by apply_parameters_to_workflow and nothing else is
\* changed on its account; the workflow that holds it is handed to the replay,
\* which starts and dispatches its actions.
C30_UnresolvedPassesThrough ==
    /\ parameterized # <<>> =>
          \A n \in UnresolvedNames, i \in DOMAIN parameterized :
             LeftInPlace(WorkflowFields(request.parameters, template)[i].text,
                         parameterized[i].text, n, parameter_values)
    /\ (UnresolvedReturned /\ AgentExited) => agent_error # "TypeError"

\* The frame condition alone: unresolved placeholders stay where they are.
UnresolvedLeftInPlace ==
    parameterized # <<>> =>
        \A n \in UnresolvedNames, i \in DOMAIN parameterized :
           LeftInPlace(WorkflowFields(request.parameters, template)[i].text,
                       parameterized[i].text, n, parameter_values)

\* A workflow with a resolved and an unresolved placeholder has been returned.
UnresolvedLeftInPlaceReached ==
    /\ UnresolvedReturned
    /\ parameter_values # <<>>
    /\ parameterized # WorkflowFields(request.parameters, template)


\* The steps after the first k parameters have been applied, each to the
\* output of the ones before it.
RECURSIVE AppliedUpTo(_)
AppliedUpTo(k) ==
    IF k = 0 THEN CleanSteps(steps)
    ELSE LET before == AppliedUpTo(k - 1)
             value == parameters[k].example_value
             var == TemplateVar(parameters[k].name)
         IN  [i \in DOMAIN before |->
                Field(before[i].kind,
                      IF before[i].kind = ParamsKind
                      THEN (IF before[i].text = value THEN var ELSE before[i].text)
                      ELSE IF value = <<>> THEN before[i].text
                      ELSE ReplaceFrom(before[i].text, 1, value, var))]

\* C31: templating applies the parameters one after the other in list order:
\* the templated steps are the single-parameter replacement folded over the
\* parameter list from first to last, each replacement working on the output
\* of the previous ones.
C31_SequentialInListOrder ==
    tpc = "built" => templated_steps = AppliedUpTo(Len(parameters))

\* The second parameter's example value was matched inside the placeholder
\* the first replacement wrote.
C31_Witness ==
    /\ tpc = "built"
    /\ Len(parameters) = 2
    /\ parameters[1].name = NameA
    /\ parameters[2] = ParameterDefinition(NameB, <<"a">>)
    /\ \E i \in DOMAIN templated_steps :
          /\ CleanSteps(steps)[i].text = <<"x">>
          /\ templated_steps[i].text
                = <<LBRACE, LBRACE, SPACE>> \o TemplateVar(NameB)
                    \o <<SPACE, RBRACE, RBRACE>>


\* The cached action in failed_action failed because the page, and with it
\* the browser session, is gone.
SessionGone == failed_action.error = WaitError

\* C32: the loss of the browser session during replay is fatal and is not
\* retried: when an action fails because the session is gone, no fallback
\* call is made and no fallback attempt starts for the step.
C32_SessionLossStartsNoFallback ==
    SessionGone =>
        /\ pc \notin {"fallback", "fallback_returned"}
        /\ attempt = 0
        /\ engine_log = <<>>
        /\ \A i \in DOMAIN fallback_calls : fallback_calls[i] # step_index


\* The keys that hold a run identifier, a screenshot payload or an internal
\* sequence id.
RuntimeKinds == {"task_run_id", "screenshot", "id", "step_number", "action_number"}

\* C34: the template build_workflow_from_run produces from persisted run steps
\* holds, at no step and at no action, a run identifier, a screenshot payload
\* or an internal sequence id.
C34_NoRuntimeFieldInTemplate ==
    tpc = "built" =>
        \A i \in DOMAIN templated_steps : templated_steps[i].kind \notin RuntimeKinds

\* The fields lines 117-127 pop are gone from every template.
PoppedFieldsGone ==
    tpc = "built" =>
        \A i \in DOMAIN templated_steps : templated_steps[i].kind \notin StrippedKinds


\* C33: saving a run as the cached workflow is all-or-nothing: a step of
\* set_run_as_cached_workflow either replaces the task's whole
\* cached_workflow by the newly built template and sets use_cached_workflow,
\* and then the endpoint returns, or leaves both columns as they were; when
\* the run or the task is missing or the build fails, they are left.
C33_SaveAllOrNothing ==
    [][/\ task_row' # task_row =>
            /\ spc = "update"
            /\ spc' = "returned"
            /\ task_row' = TaskRow(WorkflowDict(parameters, templated_steps), TRUE)
            /\ templated_steps = TemplateAll(CleanSteps(steps), parameters)
       /\ spc' = "raised" => task_row' = task_row
       /\ spc' = "returned" =>
            task_row' = TaskRow(WorkflowDict(parameters, templated_steps), TRUE)]_vars

\* A re-save has replaced an earlier template whose flag was off.
C33_Witness ==
    /\ spc = "returned"
    /\ parameters # <<>>
    /\ task_row.use_cached_workflow
    /\ task_row.cached_workflow.steps # <<Field("description", <<"y">>)>>
    /\ task_row.cached_workflow.parameters = parameters


\* The steps whose cached actions were all dispatched without a failed record.
StepsAllCachedOk ==
    {i \in DOMAIN workflow : i \notin failed_steps}

\* C35: replay_workflow returns normally only if every workflow step either
\* had all of its cached actions succeed or had a fallback attempt succeed;
\* once a step with a failed cached action has had all of its fallback
\* attempts fail, replay_workflow never returns a result.
C35_ReturnsOnlyIfEveryStepDone ==
    /\ pc = "returned" =>
          /\ Len(history) = Len(workflow)
          /\ \A i \in DOMAIN workflow :
                \/ /\ i \notin failed_steps
                   /\ Len(history[i].actions) = Len(workflow[i].actions)
                   /\ \A j \in DOMAIN history[i].actions :
                         /\ history[i].actions[j].success
                         /\ ~history[i].actions[j].executed_by_ai
                         /\ <<i, j>> \in dispatched
                \/ /\ i \in failed_steps
                   /\ \E k \in DOMAIN fallback_calls : fallback_calls[k] = i
                   /\ \A j \in DOMAIN history[i].actions :
                         history[i].actions[j].executed_by_ai
    /\ (pc = "fallback_returned" /\ ~ai_success) => final_result = NoneV
    /\ raised # NoError => (pc = "raised" /\ final_result = NoneV)
    /\ pc = "raised" => raised # NoError

C35_Witness ==
    /\ pc = "returned"
    /\ Len(workflow) = 2
    /\ failed_steps = {1}
    /\ fallback_calls = <<1>>
    /\ final_result # NoneV


\* C36: each cached action that replay_workflow dispatches produces exactly
\* one record in the step's action list, a success record or a failed record
\* but never both, also when the stabilisation wait raises after the action
\* itself succeeded.
C36_OneRecordPerDispatch ==
    [][dispatched' # dispatched =>
          \/ step_actions' = Append(step_actions,
                                    SuccessRecord(CurrentActions[action_pos]))
          \/ /\ Len(step_actions') = Len(step_actions) + 1
             /\ SubSeq(step_actions', 1, Len(step_actions)) = step_actions
             /\ step_actions'[Len(step_actions')].name = CurrentActions[action_pos]
             /\ ~step_actions'[Len(step_actions')].success
          \/ pc' = "hung" /\ step_actions' = step_actions]_vars


\* C37: at every step boundary of replay_workflow, and when it returns or
\* raises the fatal error, the screenshots list and the history list have
\* the same length, and the i-th screenshot was captured after the i-th step
\* finished: with its cached actions, through the fallback, or by exhaustion.
C37_ScreenshotPerHistoryItem ==
    /\ Len(screenshots) = Len(history)
    /\ \A i \in DOMAIN screenshots :
          /\ screenshots[i] = <<"screenshot", i>>
          /\ history[i].description = workflow[i].description
    /\ pc \in {"actions", "fallback", "fallback_returned", "hung"} =>
          Len(history) = step_index - 1
    /\ pc \in {"final", "returned"} => Len(history) = Len(workflow)
    /\ (pc = "raised" /\ raised.kind = "fallback_exhausted") =>
          Len(history) = step_index

C37_Witness ==
    /\ pc = "raised"
    /\ raised.kind = "fallback_exhausted"
    /\ step_index = 2
    /\ screenshots = <<<<"screenshot", 1>>, <<"screenshot", 2>>>>
    /\ Len(history) = 2


\* C38: a parameter whose example value is the empty string leaves the
\* templated steps unchanged: no description, action name, extracted content
\* or action value, an empty string inside an action's params included, is
\* replaced by its placeholder.
C38_EmptyExampleChangesNothing ==
    (/\ tpc = "built"
     /\ parameters # <<>>
     /\ \A i \in DOMAIN parameters : parameters[i].example_value = <<>>)
        => templated_steps = CleanSteps(steps)

\* An empty example value leaves every field but the params alone.
EmptyExampleSparesGuardedFields ==
    (/\ tpc = "built"
     /\ parameters # <<>>
     /\ \A i \in DOMAIN parameters : parameters[i].example_value = <<>>)
        => \A i \in DOMAIN templated_steps :
              templated_steps[i].kind # ParamsKind
                 => templated_steps[i] = CleanSteps(steps)[i]


\* What one instantiation of the template returns for the values, whatever
\* was instantiated before.
InstantiatedAlone(fields, values) ==
    Loads(fields, SubAllInJson(Dumps(fields), values).bodies)

C40_ErrorPersistsNothing ==
    (request.use_cached_workflow /\ agent_error # NoneV) =>
        /\ Count(calls, "update_task_run") = 0
        /\ Count(calls, "post_webhook") = 0
        /\ Count(calls, "engine_service.run") = 0
        /\ (AgentExited /\ session # "none") =>
              /\ Count(calls, "close_session") = 1
              /\ calls[Len(calls)] = "close_session"

C40_Witness ==
    /\ request.use_cached_workflow
    /\ request.webhook_url
    /\ apc = "raised"
    /\ agent_error = "ResolutionError"
    /\ session = "closed"
    /\ calls[Len(calls)] = "close_session"

====
